---- MODULE Spec2Model ----
(***************************************************************************)
(* Model of the market-potential engine of analytics_engine.py:            *)
(*   load_all_data -> filter_data -> step_1_evaluate_market ->             *)
(*   step_2_calculate_potential, composed by                               *)
(*   calculate_potential_full_pipeline.                                    *)
(*                                                                         *)
(* Conventions.                                                            *)
(*  - An Optional value is a sequence of length <= 1: None is << >>,       *)
(*    a present value x is <<x>>.                                          *)
(*  - Cyrillic string constants of the source are transliterated:          *)
(*    "Rynok" (market), "Klient", "NeKlient", "Neizvestno" (unknown),      *)
(*    "Korobka"/"Kastom" (product types), "da"/"net" (yes/no).             *)
(*  - Amounts are integers.  A float sum (+=) is rounded to MantBits       *)
(*    significant bits, ties to even, as IEEE addition does with 53 bits.  *)
(*    Quotients are kept as exact fractions and decimal rounding is        *)
(*    round-half-even on the exact value.                                  *)
(*  - Rounded outputs are kept as scaled integers: 3-decimal values in     *)
(*    thousandths, the 1-decimal rate in tenths.                           *)
(*  - The float infinity is the number Inf == 2^MaxExp; every finite       *)
(*    float of the model is smaller.  Among the inputs only staff counts   *)
(*    come near the float range.                                           *)
(*  - A file is the list of its lines after the header line, a line the    *)
(*    list of its comma-separated fields.                                  *)
(*  - An exception that leaves the pipeline is the control state "raised". *)
(***************************************************************************)
EXTENDS Integers, Sequences, FiniteSets, TLC

VARIABLES pc, files, all_data, filters, filtered_data, segment_metrics,
          segment_params, product_type, potential_results,
          MIN_CLIENTS_CONFIG, COST_PRICE_CONFIG, SEGMENT_DEFAULTS,
          invocations, _SESSIONS, heap, chat_env, chat_last,
          presented, user_data, sending

\* The variables of one pipeline call and the reference tables.
engineVars == <<pc, files, all_data, filters, filtered_data, segment_metrics,
                segment_params, product_type, potential_results,
                MIN_CLIENTS_CONFIG, COST_PRICE_CONFIG, SEGMENT_DEFAULTS>>

\* The variables of the chat front end: the module-level _SESSIONS dict
\* (user id to the place of the user's state dict in heap), what the users
\* and the language model may say (chat_env) and the last call with its
\* reply (chat_last).
chatVars == <<_SESSIONS, heap, chat_env, chat_last>>

\* The variables of the Telegram front end: the replies built from a
\* pipeline result (presented), the dialog state kept in context.user_data
\* with the history of the dialog (user_data) and the delivery of a reply
\* (sending).
botVars == <<presented, user_data, sending>>

\* The variables of the callers of the pipeline: concurrent calls and the
\* front ends.
frontVars == <<invocations, chatVars, botVars>>

vars == <<engineVars, frontVars>>

(***************************************************************************)
(* Bounds of the model.                                                    *)
(***************************************************************************)
\* Longest list of input rows (filter and evaluation inputs).
MaxRecords == 2
\* Longest list of input rows of the aggregation inputs.
MaxAggRecords == 3
\* Longest list of input rows of the metrics inputs.
MaxMetricRows == 2
\* Longest list of input rows of the loader inputs.
MaxLoadRows == 3
\* Longest MIN_CLIENTS_CONFIG and COST_PRICE_CONFIG tables.
MaxChannels == 2
MaxCostEntries == 1
\* Significant bits of a float sum (53 in the program).
MantBits == 14
\* Binary exponent at which a float sum overflows to infinity (1024 in the
\* program).
MaxExp == 29
\* Longest message history of a chat session.
MaxMessages == 4
\* Most parts a sent text is split into.
MaxParts == 2
\* Largest max_retries of safe_send_message (3 by default).
MaxRetries == 3
\* Most user turns in the dialog history of an agent of the Telegram bot.
MaxTurns == 2
\* Most /start and /reset commands of a Telegram dialog.
MaxEpochs == 2

(***************************************************************************)
(* Program constants.                                                      *)
(***************************************************************************)
\* Number of positional fields a row is padded to.
RowFields == 21
\* Fallback average check when the market sum is not positive.
DefaultAvgCheck == 100000
\* Cost price used when the reference table has no entry.
DefaultCostPrice == 1000

None == << >>
Some(x) == <<x>>
IsNone(o) == Len(o) = 0

(***************************************************************************)
(* Arithmetic.                                                             *)
(***************************************************************************)
Abs(n) == IF n < 0 THEN -n ELSE n

RECURSIVE Pow2(_)
Pow2(k) == IF k <= 0 THEN 1 ELSE 2 * Pow2(k - 1)

RECURSIVE BitLen(_)
BitLen(n) == IF n <= 0 THEN 0 ELSE 1 + BitLen(n \div 2)

\* n / d rounded to the nearest integer, ties to even (Python's round()).
RoundDiv(n, d) ==
    LET s == IF (n < 0) = (d < 0) THEN 1 ELSE -1
        a == Abs(n)
        b == Abs(d)
        q == a \div b
        r == a % b
        up == (2 * r > b) \/ (2 * r = b /\ q % 2 = 1)
    IN  s * (IF up THEN q + 1 ELSE q)

\* n rounded to MantBits significant bits, ties to even: what a float keeps.
RoundSig(n) ==
    LET e == BitLen(Abs(n)) - MantBits
    IN  IF e <= 0 THEN n ELSE RoundDiv(n, Pow2(e)) * Pow2(e)

\* The float infinity.
Inf == Pow2(MaxExp)

\* Float addition: the exact sum, rounded (the += of step_1_evaluate_market);
\* a sum beyond the float range is infinite.
FAdd(a, b) ==
    IF a = Inf \/ b = Inf THEN Inf
    ELSE LET s == RoundSig(a + b)
         IN  IF s >= Inf THEN Inf ELSE s

RECURSIVE GCD(_, _)
GCD(a, b) == IF b = 0 THEN a ELSE GCD(b, a % b)

\* The quotient n / d (d > 0) as a fraction in lowest terms.
Frac(n, d) ==
    LET g == GCD(Abs(n), d)
    IN  [n |-> n \div g, d |-> d \div g]

(***************************************************************************)
(* FileData.parse_int / parse_float / _normalize_str on the field strings  *)
(* the model feeds in.  NumLits lists the numeric literals, PaddedLits the *)
(* strings that strip() changes.                                           *)
(***************************************************************************)
NumLits == {<<"0", 0>>, <<"1", 1>>, <<"2", 2>>, <<"3", 3>>, <<"5", 5>>,
            <<"-1", -1>>, <<"-2", -2>>, <<"1000", 1000>>, <<"16384", 16384>>,
            <<"100000", 100000>>, <<"200000", 200000>>,
            <<"400000", 400000>>, <<"600000", 600000>>,
            <<"1000000", 1000000>>,
            <<"2000000", 2000000>>, <<"1e308", Pow2(MaxExp - 1)>>,
            <<"inf", Inf>>}

PaddedLits == {<<" 1 ", "1">>, <<" MMB ", "MMB">>, <<" ", "">>}

strip(s) ==
    IF \E p \in PaddedLits : p[1] = s
    THEN (CHOOSE p \in PaddedLits : p[1] = s)[2]
    ELSE s

lower(s) ==
    CASE s = "NULL" -> "null"
      [] s = "None" -> "none"
      [] s = "Poschitai" -> "poschitai"
      [] OTHER -> s

_normalize_str(value) == strip(IF IsNone(value) THEN "" ELSE value[1])

\* value or None, for a string.
StrOrNone(s) == IF s = "" THEN None ELSE Some(s)

parse_float(value0) ==
    LET value == strip(value0)
    IN  IF value = "" \/ lower(value) \in {"", "null", "none"}
        THEN None
        ELSE IF \E p \in NumLits : p[1] = value
             THEN Some((CHOOSE p \in NumLits : p[1] = value)[2])
             ELSE None   \* ValueError is caught

\* int(float(value)) raises OverflowError for an infinite float; the
\* except clause of parse_int does not catch it.
ParseIntRaises(value0) ==
    LET v == parse_float(value0)
    IN  ~IsNone(v) /\ v[1] = Inf

\* int(float(value)): the literals of the model are whole numbers.
parse_int(value0) == parse_float(value0)

\* fields += [''] * (21 - len(fields))
Padded(row) ==
    IF Len(row) < RowFields
    THEN row \o [k \in 1..(RowFields - Len(row)) |-> ""]
    ELSE row

\* fields[i] of the source (0-based), after the padding.
Field(row, i) == Padded(row)[i + 1]

from_csv_row(row) ==
    [id_lvl_1         |-> parse_int(Field(row, 0)),
     id_lvl_2         |-> parse_int(Field(row, 1)),
     parameter_id     |-> StrOrNone(_normalize_str(Some(Field(row, 2)))),
     fact_amt         |-> parse_float(Field(row, 3)),
     fact_amt_2       |-> parse_float(Field(row, 4)),
     field_1_value_s  |-> StrOrNone(_normalize_str(Some(Field(row, 5)))),
     field_3_value_s  |-> StrOrNone(_normalize_str(Some(Field(row, 6)))),
     field_4_value_s  |-> StrOrNone(_normalize_str(Some(Field(row, 7)))),
     field_5_value_s  |-> StrOrNone(_normalize_str(Some(Field(row, 8)))),
     field_8_value_s  |-> StrOrNone(_normalize_str(Some(Field(row, 11)))),
     field_9_value_s  |-> StrOrNone(_normalize_str(Some(Field(row, 12)))),
     field_11_value_n |-> parse_int(Field(row, 14)),
     field_2_value_s  |-> StrOrNone(_normalize_str(Some(Field(row, 19))))]

\* from_csv_row raises: one of its three parse_int calls does.
RowRaises(row) ==
    \E i \in {0, 1, 14} : ParseIntRaises(Field(row, i))

\* line.strip() is empty.
IsBlank(row) == Len(row) = 1 /\ strip(row[1]) = ""

\* The loop that ends at the first row whose conversion raises.
RECURSIVE LoadRowsUntilRaise(_)
LoadRowsUntilRaise(rows) ==
    IF rows = << >> \/ RowRaises(Head(rows)) THEN << >>
    ELSE IF IsBlank(Head(rows))
         THEN LoadRowsUntilRaise(Tail(rows))
         ELSE <<from_csv_row(Head(rows))>> \o LoadRowsUntilRaise(Tail(rows))

\* The records of the rows of all files, in file order then row order; a
\* line that is empty after strip() is skipped, and so is a row whose
\* conversion raises (the try/except around from_csv_row).
RECURSIVE load_rows(_)
load_rows(rows) ==
    IF rows = << >> THEN << >>
    ELSE IF IsBlank(Head(rows)) \/ RowRaises(Head(rows))
         THEN load_rows(Tail(rows))
         ELSE <<from_csv_row(Head(rows))>> \o load_rows(Tail(rows))

RECURSIVE load_all_data(_)
load_all_data(fs) ==
    IF fs = << >> THEN << >>
    ELSE load_rows(Head(fs)) \o load_all_data(Tail(fs))

(***************************************************************************)
(* filter_data.                                                            *)
(***************************************************************************)
\* filters.get(key): None when the key is absent.
FiltersGet(f, key) == IF key \in DOMAIN f THEN Some(f[key]) ELSE None

\* The test "is not None" in place of the truth value.
ListNotNone(o) == ~IsNone(o)

\* Truth value of an Optional list: None and [] are false.
ListTruthy(o) == ~IsNone(o) /\ Len(o[1]) > 0

\* Truth value of an Optional string: None and "" are false.
StrTruthy(o) == ~IsNone(o) /\ o[1] # ""

InList(x, l) == \E i \in 1..Len(l) : l[i] = x

\* Class prefix of a dotted code: the part before the first dot.
CodeClass(code) ==
    CASE code \in {"47.0", "47.1", "47.2", "47.8"} -> "47"
      [] code \in {"62.0", "62.1", "62.3"} -> "62"
      [] OTHER -> code

\* value not in allowed, by class prefix instead of the full string.
ValueRejectedByClass(value, allowed) ==
    ~StrTruthy(value)
    \/ ~(\E i \in 1..Len(allowed) : CodeClass(allowed[i]) = CodeClass(value[1]))

\* "not record.f or record.f not in allowed": the test that skips a record.
ValueRejected(value, allowed) ==
    ~StrTruthy(value) \/ ~InList(value[1], allowed)

\* One dimension of the loop body: TRUE when the record goes on.
DimPasses(f, key, value) ==
    LET crit == FiltersGet(f, key)
    IN  ListTruthy(crit) => ~ValueRejected(value, crit[1])

\* The loop body without its fourth block.
RecordPassesWithoutTb(record, f) ==
    /\ DimPasses(f, "industries", record.field_5_value_s)
    /\ DimPasses(f, "revenue", record.field_8_value_s)
    /\ DimPasses(f, "staff", record.field_9_value_s)

RecordPasses(record, f) ==
    /\ DimPasses(f, "industries", record.field_5_value_s)
    /\ DimPasses(f, "revenue", record.field_8_value_s)
    /\ DimPasses(f, "staff", record.field_9_value_s)
    /\ DimPasses(f, "tb", record.field_2_value_s)

\* The filter that returns its input when no record passes.
FilterOrAll(data, f) ==
    IF \E i \in 1..Len(data) : RecordPasses(data[i], f)
    THEN SelectSeq(data, LAMBDA record : RecordPasses(record, f))
    ELSE data

RECURSIVE filter_data(_, _)
filter_data(data, f) ==
    IF data = << >> THEN << >>
    ELSE (IF RecordPasses(Head(data), f) THEN <<Head(data)>> ELSE << >>)
         \o filter_data(Tail(data), f)

(***************************************************************************)
(* step_1_evaluate_market.  The segments dict is a sequence of             *)
(* [seg, vals] entries in insertion order.                                 *)
(***************************************************************************)
\* record.x or 0.0, for an Optional number.
NumOrZero(o) == IF IsNone(o) \/ o[1] = 0 THEN 0 ELSE o[1]

SegmentOf(record) ==
    IF StrTruthy(record.field_1_value_s)
    THEN record.field_1_value_s[1] ELSE "Neizvestno"

NewVals ==
    [Rynok |-> 0, AktivnyeKlienty |-> 0, SpyashchieNeKlienty |-> 0,
     num_non_market |-> 0, fact_amt_2_sum_rynek |-> 0,
     fact_amt_sum_rynek |-> 0, field_11_sum_rynek |-> 0,
     SrednyayaVyruchka |-> 0, SredneeKolSotr |-> 0,
     avg_check |-> [n |-> 0, d |-> 1]]

SegIndex(segments, seg) ==
    IF \E i \in 1..Len(segments) : segments[i].seg = seg
    THEN CHOOSE i \in 1..Len(segments) : segments[i].seg = seg
    ELSE 0

\* The branches with "=" in place of "+=" on the market sums.
AddRecordOverwriting(vals, record) ==
    LET field_4 == record.field_4_value_s
        fact_amt == NumOrZero(record.fact_amt)
        fact_amt_2 == NumOrZero(record.fact_amt_2)
        field_11 == NumOrZero(record.field_11_value_n)
        v1 == IF field_4 = Some("Rynok")
              THEN [vals EXCEPT
                      !.Rynok = fact_amt,
                      !.fact_amt_2_sum_rynek = fact_amt_2,
                      !.fact_amt_sum_rynek = fact_amt,
                      !.field_11_sum_rynek = field_11]
              ELSE IF field_4 = Some("Klient")
              THEN [vals EXCEPT !.AktivnyeKlienty = FAdd(@, fact_amt)]
              ELSE IF field_4 = Some("NeKlient")
              THEN [vals EXCEPT !.SpyashchieNeKlienty = FAdd(@, fact_amt)]
              ELSE vals
    IN  IF field_4 # Some("Rynok")
        THEN [v1 EXCEPT !.num_non_market = @ + 1]
        ELSE v1

\* The branches with a last "else" that counts the record as a non-client.
AddRecordElseNonClient(vals, record) ==
    LET field_4 == record.field_4_value_s
        fact_amt == NumOrZero(record.fact_amt)
        fact_amt_2 == NumOrZero(record.fact_amt_2)
        field_11 == NumOrZero(record.field_11_value_n)
        v1 == IF field_4 = Some("Rynok")
              THEN [vals EXCEPT
                      !.Rynok = FAdd(@, fact_amt),
                      !.fact_amt_2_sum_rynek = FAdd(@, fact_amt_2),
                      !.fact_amt_sum_rynek = FAdd(@, fact_amt),
                      !.field_11_sum_rynek = FAdd(@, field_11)]
              ELSE IF field_4 = Some("Klient")
              THEN [vals EXCEPT !.AktivnyeKlienty = FAdd(@, fact_amt)]
              ELSE [vals EXCEPT !.SpyashchieNeKlienty = FAdd(@, fact_amt)]
    IN  IF field_4 # Some("Rynok")
        THEN [v1 EXCEPT !.num_non_market = @ + 1]
        ELSE v1

\* The four branches on field_4_value_s, applied to one segment's vals.
AddRecord(vals, record) ==
    LET field_4 == record.field_4_value_s
        fact_amt == NumOrZero(record.fact_amt)
        fact_amt_2 == NumOrZero(record.fact_amt_2)
        field_11 == NumOrZero(record.field_11_value_n)
        v1 == IF field_4 = Some("Rynok")
              THEN [vals EXCEPT
                      !.Rynok = FAdd(@, fact_amt),
                      !.fact_amt_2_sum_rynek = FAdd(@, fact_amt_2),
                      !.fact_amt_sum_rynek = FAdd(@, fact_amt),
                      !.field_11_sum_rynek = FAdd(@, field_11)]
              ELSE IF field_4 = Some("Klient")
              THEN [vals EXCEPT !.AktivnyeKlienty = FAdd(@, fact_amt)]
              ELSE IF field_4 = Some("NeKlient")
              THEN [vals EXCEPT !.SpyashchieNeKlienty = FAdd(@, fact_amt)]
              ELSE vals
    IN  IF field_4 # Some("Rynok")
        THEN [v1 EXCEPT !.num_non_market = @ + 1]
        ELSE v1

\* The first loop: one record folded into the segments.
RECURSIVE Accumulate(_, _)
Accumulate(segments, data) ==
    IF data = << >> THEN segments
    ELSE LET record == Head(data)
             seg == SegmentOf(record)
             i == SegIndex(segments, seg)
             segs1 == IF i = 0
                      THEN Append(segments, [seg |-> seg, vals |-> NewVals])
                      ELSE segments
             j == IF i = 0 THEN Len(segs1) ELSE i
         IN  Accumulate(
                 [segs1 EXCEPT ![j].vals = AddRecord(@, record)],
                 Tail(data))

\* avg_check with the test "!= 0" in place of "> 0".
AvgCheckOfNonZero(vals) ==
    IF vals.fact_amt_sum_rynek # 0
    THEN Frac((IF vals.fact_amt_sum_rynek < 0 THEN -1 ELSE 1)
                  * vals.fact_amt_2_sum_rynek,
              Abs(vals.fact_amt_sum_rynek))
    ELSE [n |-> DefaultAvgCheck, d |-> 1]

\* avg_check: the market quotient, or the default when there is no market.
AvgCheckOf(vals) ==
    IF vals.fact_amt_sum_rynek > 0
    THEN Frac(vals.fact_amt_2_sum_rynek, vals.fact_amt_sum_rynek)
    ELSE [n |-> DefaultAvgCheck, d |-> 1]

\* The averages with the market sum alone as the denominator.
DeriveOverMarketSum(vals) ==
    LET denominator == vals.fact_amt_sum_rynek
    IN  [vals EXCEPT
           !.SrednyayaVyruchka =
               IF denominator > 0
               THEN RoundDiv(vals.fact_amt_2_sum_rynek, denominator * 1000)
               ELSE 0,
           !.SredneeKolSotr =
               IF denominator > 0
               THEN RoundDiv(vals.field_11_sum_rynek, denominator)
               ELSE 0,
           !.avg_check = AvgCheckOf(vals)]

\* The second loop, for one segment: the averages from the accumulators.
Derive(vals) ==
    LET denominator == FAdd(vals.fact_amt_sum_rynek, vals.num_non_market)
    IN  [vals EXCEPT
           !.SrednyayaVyruchka =
               IF denominator > 0
               THEN RoundDiv(vals.fact_amt_2_sum_rynek, denominator * 1000)
               ELSE 0,
           !.SredneeKolSotr =
               IF denominator > 0
               THEN RoundDiv(vals.field_11_sum_rynek, denominator)
               ELSE 0,
           !.avg_check = AvgCheckOf(vals)]

\* int(round(avg_staff)) raises for an infinite (or nan) avg_staff: the
\* staff sum is infinite and the denominator is positive.
DeriveRaises(vals) ==
    /\ FAdd(vals.fact_amt_sum_rynek, vals.num_non_market) > 0
    /\ vals.field_11_sum_rynek = Inf

DeriveAll(segments) ==
    [i \in 1..Len(segments) |->
        [seg |-> segments[i].seg, vals |-> Derive(segments[i].vals)]]

step_1_evaluate_market(data) == DeriveAll(Accumulate(<< >>, data))

\* step_1_evaluate_market raises instead of returning.
Step1Raises(data) ==
    LET segments == Accumulate(<< >>, data)
    IN  \E i \in 1..Len(segments) : DeriveRaises(segments[i].vals)

(***************************************************************************)
(* step_2_calculate_potential.  The reference tables are lists of entries, *)
(* read in list order.                                                     *)
(***************************************************************************)
\* Whole part q and remainder r of a * b / d for a >= b >= 0 and d > 0:
\* directly when the product is small, else by doubling over the smaller
\* factor, so that no intermediate value is larger than the result or
\* three times the divisor.
RECURSIVE Doubling(_, _, _)
Doubling(a, b, d) ==
    IF a < 32768 THEN [q |-> (a * b) \div d, r |-> (a * b) % d]
    ELSE IF b = 0 THEN [q |-> 0, r |-> 0]
    ELSE LET h == Doubling(a, b \div 2, d)
             odd == b % 2 = 1
             t == 2 * h.r + (IF odd THEN a % d ELSE 0)
         IN  [q |-> 2 * h.q + (IF odd THEN a \div d ELSE 0) + t \div d,
              r |-> t % d]

\* Whole part q and remainder r of a * b / d for a, b >= 0 and d > 0.
MulDivMod(a, b, d) == IF a < b THEN Doubling(b, a, d) ELSE Doubling(a, b, d)

\* A whole part and remainder over d rounded half-even.
RoundMixed(m, d) ==
    IF (2 * m.r > d) \/ (2 * m.r = d /\ m.q % 2 = 1) THEN m.q + 1 ELSE m.q

\* a * b / c (c > 0) rounded half-even.
MulDivRound(a, b, c) ==
    LET s == IF (a < 0) = (b < 0) THEN 1 ELSE -1
    IN  s * RoundMixed(MulDivMod(Abs(a), Abs(b), c), c)

\* a * b * c / d (d > 0) rounded half-even.
MulDiv3Round(a, b, c, d) ==
    LET neg == Cardinality({i \in 1..3 : <<a, b, c>>[i] < 0}) % 2 = 1
        m1 == MulDivMod(Abs(a), Abs(b), d)
        m2 == MulDivMod(m1.r, Abs(c), d)
        m == [q |-> m1.q * Abs(c) + m2.q, r |-> m2.r]
    IN  (IF neg THEN -1 ELSE 1) * RoundMixed(m, d)

\* The entry test without the segment.
CostMatchesAnySegment(cp, channel, segment, ptype) ==
    /\ cp.Kanal = channel
    /\ cp.TipProdukta = ptype
    /\ cp.TipSummy = "Sebestoimost"

\* An entry of the cost table is for this channel, product type, cost kind
\* and segment.
CostMatches(cp, channel, segment, ptype) ==
    /\ cp.Kanal = channel
    /\ cp.TipProdukta = ptype
    /\ cp.TipSummy = "Sebestoimost"
    /\ cp.Segment = segment

HasCostPrice(cfg, channel, segment, ptype) ==
    \E i \in 1..Len(cfg) : CostMatches(cfg[i], channel, segment, ptype)

\* _get_cost_price: the first matching entry's amount, else the default.
_get_cost_price(cfg, channel, segment, ptype) ==
    IF HasCostPrice(cfg, channel, segment, ptype)
    THEN cfg[CHOOSE i \in 1..Len(cfg) :
                /\ CostMatches(cfg[i], channel, segment, ptype)
                /\ \A j \in 1..(i - 1) :
                       ~CostMatches(cfg[j], channel, segment, ptype)].Summa
    ELSE DefaultCostPrice

\* calc_clients: the three sums of the segment's metrics.
CalcClients(metrics) ==
    FAdd(FAdd(metrics.Rynok, metrics.AktivnyeKlienty),
         metrics.SpyashchieNeKlienty)

\* metrics.get("avg_check") or 100_000.0
AvgCheckOrDefault(metrics) ==
    IF metrics.avg_check.n = 0
    THEN [n |-> DefaultAvgCheck, d |-> 1]
    ELSE metrics.avg_check

\* The default table consulted before the supplied parameters.
SegParamDefaultFirst(params, defaults, seg, key) ==
    IF seg \in DOMAIN defaults[key] THEN defaults[key][seg]
    ELSE IF seg \in DOMAIN params /\ key \in DOMAIN params[seg]
    THEN params[seg][key]
    ELSE 0

\* segment_params.get(seg, {}).get(key), then the default table's
\* .get(seg, 0.0) when that is None.
SegParam(params, defaults, seg, key) ==
    IF seg \in DOMAIN params /\ key \in DOMAIN params[seg]
    THEN params[seg][key]
    ELSE IF seg \in DOMAIN defaults[key] THEN defaults[key][seg] ELSE 0

\* The "net" row of the minimum-clients check.
TooFewRow(channel, seg, calc_clients) ==
    [Kanal |-> channel, Segment |-> seg, calc_clients |-> calc_clients,
     potential_amount |-> 0, rate_ab |-> 0, amount_ab |-> 0,
     amount_chkd |-> 0, revenue |-> 0, total_potential |-> 0,
     Reshenie |-> "net", Poyasnenie |-> "Malo klientov"]

\* The "net" row of the rate check.
ZeroRateRow(channel, seg, calc_clients, potential_amount, rate_ab) ==
    [Kanal |-> channel, Segment |-> seg, calc_clients |-> calc_clients,
     potential_amount |-> potential_amount, rate_ab |-> rate_ab,
     amount_ab |-> 0, amount_chkd |-> 0, revenue |-> 0,
     total_potential |-> 0,
     Reshenie |-> "net", Poyasnenie |-> "Stavka 0% posle okrugleniya"]

\* The "da" row with a total of the downstream amounts only.
YesRowNoAb(channel, seg, calc_clients, potential_amount, rate_ab, dolya, kprib) ==
    [Kanal |-> channel, Segment |-> seg, calc_clients |-> calc_clients,
     potential_amount |-> potential_amount, rate_ab |-> rate_ab,
     amount_ab |-> MulDivRound(potential_amount, rate_ab, 1000),
     amount_chkd |-> MulDiv3Round(potential_amount, rate_ab, dolya, 100000),
     revenue |->
         MulDiv3Round(potential_amount, rate_ab, dolya * kprib, 10000000),
     total_potential |->
         MulDiv3Round(potential_amount, rate_ab,
                      100 * dolya + dolya * kprib, 10000000),
     Reshenie |-> "da", Poyasnenie |-> "Proshel vse proverki"]

\* The "da" row.  potential_amount * rate_ab is amount_ab * 10^6; the
\* amounts are rounded from the unrounded chain, each to thousandths.
YesRow(channel, seg, calc_clients, potential_amount, rate_ab, dolya, kprib) ==
    [Kanal |-> channel, Segment |-> seg, calc_clients |-> calc_clients,
     potential_amount |-> potential_amount, rate_ab |-> rate_ab,
     amount_ab |-> MulDivRound(potential_amount, rate_ab, 1000),
     amount_chkd |-> MulDiv3Round(potential_amount, rate_ab, dolya, 100000),
     revenue |->
         MulDiv3Round(potential_amount, rate_ab, dolya * kprib, 10000000),
     total_potential |->
         MulDiv3Round(potential_amount, rate_ab,
                      10000 + 100 * dolya + dolya * kprib, 10000000),
     Reshenie |-> "da", Poyasnenie |-> "Proshel vse proverki"]

\* The quotient taken the other way round: avg_check / cost_price * 100.
RateAbInverted(cost_price, avg_check) ==
    MulDivRound(avg_check.n * 1000, 1, avg_check.d * cost_price)

\* rate_ab in tenths of a percent: round(cost_price / avg_check * 100, 1).
RateAb(cost_price, avg_check) ==
    MulDivRound(cost_price * 1000, avg_check.d, Abs(avg_check.n))
        * (IF avg_check.n < 0 THEN -1 ELSE 1)

\* The rate test taken on the unrounded quotient.
RateIsZeroUnrounded(cost_price, avg_check) == cost_price = 0

\* rate_ab == 0.0
RateIsZero(cost_price, avg_check) == RateAb(cost_price, avg_check) = 0

\* The minimum-clients test off by one.
TooFewOffByOne(calc_clients, min_clients) == calc_clients < min_clients - 1

\* calc_clients < min_clients
TooFew(calc_clients, min_clients) == calc_clients < min_clients

\* The body of the inner loop: the row of one (segment, channel).
ChannelRow(seg, metrics, channel_info, params, ptype, costcfg, defaults) ==
    LET channel == channel_info.Kanal
        min_clients == channel_info.MinKlientov
        calc_clients == CalcClients(metrics)
        avg_check == AvgCheckOrDefault(metrics)
        cost_price == _get_cost_price(costcfg, channel, seg, ptype)
        \* potential_amount in thousandths:
        \* round(calc_clients * avg_check / 1_000_000 * 0.05, 3)
        potential_amount ==
            MulDivRound(calc_clients, avg_check.n, 20000 * avg_check.d)
        rate_ab == RateAb(cost_price, avg_check)
    IN  IF TooFew(calc_clients, min_clients)
        THEN TooFewRow(channel, seg, calc_clients)
        ELSE IF RateIsZero(cost_price, avg_check)
        THEN ZeroRateRow(channel, seg, calc_clients, potential_amount, rate_ab)
        ELSE YesRow(channel, seg, calc_clients, potential_amount, rate_ab,
                    SegParam(params, defaults, seg, "dolya"),
                    SegParam(params, defaults, seg, "kpr"))

\* The whole table, whatever the segment.
ChannelsOfAnySegment(mincfg, seg) == mincfg

\* MIN_CLIENTS_CONFIG entries of one segment, in table order.
RECURSIVE ChannelsOf(_, _)
ChannelsOf(mincfg, seg) ==
    IF mincfg = << >> THEN << >>
    ELSE (IF Head(mincfg).Segment = seg THEN <<Head(mincfg)>> ELSE << >>)
         \o ChannelsOf(Tail(mincfg), seg)

\* The rows of a segment with its channels taken last to first.
SegmentRowsReversed(entry, params, ptype, mincfg, costcfg, defaults) ==
    LET channels == ChannelsOf(mincfg, entry.seg)
        n == Len(channels)
    IN  [k \in 1..n |->
            ChannelRow(entry.seg, entry.vals, channels[n + 1 - k], params,
                       ptype, costcfg, defaults)]

\* The inner loop: the rows of one segment, one per channel of the segment.
SegmentRows(entry, params, ptype, mincfg, costcfg, defaults) ==
    LET channels == ChannelsOf(mincfg, entry.seg)
    IN  [k \in 1..Len(channels) |->
            ChannelRow(entry.seg, entry.vals, channels[k], params, ptype,
                       costcfg, defaults)]

RECURSIVE step_2_calculate_potential(_, _, _, _, _, _)
step_2_calculate_potential(metrics, params, ptype, mincfg, costcfg, defaults) ==
    IF metrics = << >> THEN << >>
    ELSE SegmentRows(Head(metrics), params, ptype, mincfg, costcfg, defaults)
         \o step_2_calculate_potential(Tail(metrics), params, ptype, mincfg,
                                       costcfg, defaults)

(***************************************************************************)
(* calculate_potential_full_pipeline as a state machine: one action per    *)
(* call, in the order of the source.                                       *)
(***************************************************************************)
LoadAllData ==
    /\ pc = "start"
    /\ all_data' = load_all_data(files)
    /\ pc' = "loaded"
    /\ UNCHANGED <<files, filters, filtered_data, segment_metrics,
                   segment_params, product_type, potential_results,
                   MIN_CLIENTS_CONFIG, COST_PRICE_CONFIG, SEGMENT_DEFAULTS>>
    /\ UNCHANGED frontVars

FilterData ==
    /\ pc = "loaded"
    /\ filtered_data' = filter_data(all_data, filters)
    /\ pc' = "filtered"
    /\ UNCHANGED <<files, all_data, filters, segment_metrics,
                   segment_params, product_type, potential_results,
                   MIN_CLIENTS_CONFIG, COST_PRICE_CONFIG, SEGMENT_DEFAULTS>>
    /\ UNCHANGED frontVars

Step1 ==
    /\ pc = "filtered"
    /\ IF Step1Raises(filtered_data)
       THEN pc' = "raised" /\ UNCHANGED segment_metrics
       ELSE /\ segment_metrics' = step_1_evaluate_market(filtered_data)
            /\ pc' = "aggregated"
    /\ UNCHANGED <<files, all_data, filters, filtered_data,
                   segment_params, product_type, potential_results,
                   MIN_CLIENTS_CONFIG, COST_PRICE_CONFIG, SEGMENT_DEFAULTS>>
    /\ UNCHANGED frontVars

Step2 ==
    /\ pc = "aggregated"
    /\ potential_results' =
           step_2_calculate_potential(segment_metrics, segment_params,
               product_type, MIN_CLIENTS_CONFIG, COST_PRICE_CONFIG,
               SEGMENT_DEFAULTS)
    /\ pc' = "done"
    /\ UNCHANGED <<files, all_data, filters, filtered_data, segment_metrics,
                   segment_params, product_type,
                   MIN_CLIENTS_CONFIG, COST_PRICE_CONFIG, SEGMENT_DEFAULTS>>
    /\ UNCHANGED frontVars

Next == LoadAllData \/ FilterData \/ Step1 \/ Step2

(***************************************************************************)
(* Inputs.  A row is the list of its comma-separated fields.               *)
(***************************************************************************)
SeqUpTo(S, n) == UNION {[1..k -> S] : k \in 0..n}

MkRow(fact_amt, fact_amt_2, seg, rel, okved, rev, staff, staff_n, tb) ==
    <<"1", "1", "p", fact_amt, fact_amt_2, seg, "", rel, okved, "", "",
      rev, staff, "", staff_n, "", "", "", "", tb, "">>

\* The Telegram front end has not been used.
BotIdle ==
    /\ presented = << >>
    /\ user_data = << >>
    /\ sending = << >>

\* No caller is active.
FrontIdle ==
    /\ invocations = << >>
    /\ _SESSIONS = << >>
    /\ heap = << >>
    /\ chat_env = << >>
    /\ chat_last = << >>
    /\ BotIdle

\* The state before the first call, for given inputs.
Start(fs, f, params, ptype, mincfg, costcfg, defaults) ==
    /\ pc = "start"
    /\ files = fs
    /\ filters = f
    /\ segment_params = params
    /\ product_type = ptype
    /\ MIN_CLIENTS_CONFIG = mincfg
    /\ COST_PRICE_CONFIG = costcfg
    /\ SEGMENT_DEFAULTS = defaults
    /\ all_data = << >>
    /\ filtered_data = << >>
    /\ segment_metrics = << >>
    /\ potential_results = << >>
    /\ FrontIdle

NoParams == << >>
NoDefaults == [dolya |-> << >>, kpr |-> << >>]
MmbDefaults == [dolya |-> [s \in {"MMB"} |-> 6], kpr |-> [s \in {"MMB"} |-> 15]]

MinEntry(channel, seg, n) ==
    [Kanal |-> channel, Segment |-> seg, MinKlientov |-> n]

CostEntry(channel, ptype, kind, seg, amount) ==
    [Kanal |-> channel, TipProdukta |-> ptype, TipSummy |-> kind,
     Segment |-> seg, Summa |-> amount]

\* --- inputs of the filter ------------------------------------------------
FilterRows ==
    {MkRow("1", "3", "MMB", "Rynok", okved, v[1], v[2], "5", v[3]) :
        okved \in {"", "47.8", "47.2", "62.3"},
        v \in {<<"r1", "s1", "t1">>, <<"", "s1", "t1">>, <<"r2", "s1", "t1">>,
               <<"r1", "", "t1">>, <<"r1", "s1", "">>}}

\* A filters dict from four Optional lists; None leaves the key out.
MkFilters(ind, rev, staff, tb) ==
    LET given == [industries |-> ind, revenue |-> rev, staff |-> staff, tb |-> tb]
        keys == {k \in DOMAIN given : ~IsNone(given[k])}
    IN  [k \in keys |-> given[k][1]]

FilterSpace ==
    {MkFilters(ind, rev, staff, tb) :
        ind \in {None, Some(<< >>), Some(<<"47.0">>), Some(<<"47.2">>),
                 Some(<<"62.1", "47.2">>)},
        rev \in {Some(<< >>), Some(<<"r1">>)},
        staff \in {Some(<< >>), Some(<<"s1">>)},
        tb \in {None, Some(<<"t1">>)}}

FilterMinCfg == <<MinEntry("K1", "MMB", 1)>>
FilterCostCfg == <<CostEntry("K1", "Korobka", "Sebestoimost", "MMB", 1000)>>

InitFilter ==
    \E rows \in SeqUpTo(FilterRows, MaxRecords), f \in FilterSpace :
        Start(<<rows>>, f, NoParams, "Korobka", FilterMinCfg, FilterCostCfg,
              MmbDefaults)

SpecFilter == InitFilter /\ [][Next]_vars

(***************************************************************************)
(* Claims about filter_data (checked under SpecFilter).                    *)
(***************************************************************************)
FilterKeys == {"industries", "revenue", "staff", "tb"}

Filtered == pc \in {"filtered", "aggregated", "done"}

Range(l) == {l[i] : i \in 1..Len(l)}

\* The accepted values of a dimension; the empty set when the key is
\* absent or its list is empty.
Accepted(f, key) == IF key \in DOMAIN f THEN Range(f[key]) ELSE {}

AllCriteriaEmpty == \A key \in FilterKeys : Accepted(filters, key) = {}

\* The record's value on each dimension.
ValueOn(record, key) ==
    CASE key = "industries" -> record.field_5_value_s
      [] key = "revenue" -> record.field_8_value_s
      [] key = "staff" -> record.field_9_value_s
      [] key = "tb" -> record.field_2_value_s

\* A record satisfies a dimension iff its value is non-null and is one of
\* the accepted values.
Satisfies(record, key) ==
    /\ ValueOn(record, key) # None
    /\ ValueOn(record, key)[1] \in Accepted(filters, key)

SatisfiesAll(record) ==
    \A key \in FilterKeys :
        Accepted(filters, key) # {} => Satisfies(record, key)

\* C1: with all four criteria empty or absent, filter_data returns the
\* same records in the same order.
C1_EmptyCriteriaIdentity ==
    (Filtered /\ AllCriteriaEmpty) => filtered_data = all_data

C1_Witness ==
    /\ Filtered /\ AllCriteriaEmpty
    /\ "industries" \in DOMAIN filters /\ "tb" \notin DOMAIN filters
    /\ Len(all_data) = 2
    /\ all_data[1] # all_data[2]
    /\ all_data[1].field_5_value_s = None
    /\ filtered_data = all_data

\* C2: the output is exactly the subsequence, in the original order, of the
\* records that satisfy every non-empty dimension.
C2_ExactSubsequence ==
    Filtered => filtered_data = SelectSeq(all_data, SatisfiesAll)

C2_Witness ==
    /\ Filtered
    /\ Len(all_data) = 2 /\ Len(filtered_data) = 1
    /\ filtered_data[1] = all_data[2]
    /\ all_data[1].field_2_value_s = None
    /\ Accepted(filters, "tb") # {}
    /\ Accepted(filters, "industries") = {"62.1", "47.2"}

\* Codes of the shape <class>.0 / <class>.1 stand for the whole class.
IsBroad(code) == code \in {"47.0", "47.1", "62.0", "62.1"}

\* C3: a broad code XX.0 / XX.1 among the industries lets in every record
\* of class XX (that the other three dimensions let in).
C3_BroadCodeMatchesClass ==
    Filtered =>
        \A i \in 1..Len(all_data) :
            LET record == all_data[i]
            IN  ( /\ record.field_5_value_s # None
                  /\ \E c \in Accepted(filters, "industries") :
                         /\ IsBroad(c)
                         /\ CodeClass(c) = CodeClass(record.field_5_value_s[1])
                  /\ \A key \in FilterKeys \ {"industries"} :
                         Accepted(filters, key) # {} => Satisfies(record, key) )
                => \E j \in 1..Len(filtered_data) : filtered_data[j] = record

\* C4: a code that is not broad lets in only records whose full code is
\* identical to it: an output record of a class for which no broad code
\* was supplied carries one of the supplied codes.
C4_ExactCodeMatchesIdentical ==
    Filtered =>
        \A j \in 1..Len(filtered_data) :
            LET record == filtered_data[j]
                codes == Accepted(filters, "industries")
            IN  ( /\ codes # {}
                  /\ \A c \in codes :
                         IsBroad(c) =>
                             (record.field_5_value_s = None
                              \/ CodeClass(c) # CodeClass(record.field_5_value_s[1])) )
                => ( /\ record.field_5_value_s # None
                     /\ record.field_5_value_s[1] \in codes )

C4_Witness ==
    /\ Filtered
    /\ Accepted(filters, "industries") = {"47.2"}
    /\ Len(all_data) = 2 /\ Len(filtered_data) = 1
    /\ all_data[1].field_5_value_s = Some("47.8")
    /\ all_data[2].field_5_value_s = Some("47.2")
    /\ filtered_data[1] = all_data[2]

(***************************************************************************)
(* Inputs of the aggregation and claims about step_1_evaluate_market       *)
(* (checked under SpecAgg).                                                *)
(***************************************************************************)
AggRows ==
    {MkRow(fact_amt, "3", seg, rel, "47.8", "r1", "s1", "5", "t1") :
        fact_amt \in {"", "1", "-1", "16384"},
        seg \in {"MMB", ""},
        rel \in {"Rynok", "Klient"}}

AggCostCfg == <<CostEntry("K1", "Korobka", "Sebestoimost", "MMB", 5)>>

InitAgg ==
    \E rows \in SeqUpTo(AggRows, MaxAggRecords) :
        Start(<<rows>>, << >>, NoParams, "Korobka", FilterMinCfg,
              AggCostCfg, MmbDefaults)

SpecAgg == InitAgg /\ [][Next]_vars

Aggregated == pc \in {"aggregated", "done"}

\* The records of data at the positions in S, in order.
RECURSIVE Part(_, _, _)
Part(data, S, i) ==
    IF i > Len(data) THEN << >>
    ELSE (IF i \in S THEN <<data[i]>> ELSE << >>) \o Part(data, S, i + 1)

\* The accumulators of a record list: the first loop alone.
Accumulators(data) == Accumulate(<< >>, data)

\* Accumulators added field by field (float additions).
AddVals(a, b) ==
    [a EXCEPT
       !.Rynok = FAdd(@, b.Rynok),
       !.AktivnyeKlienty = FAdd(@, b.AktivnyeKlienty),
       !.SpyashchieNeKlienty = FAdd(@, b.SpyashchieNeKlienty),
       !.num_non_market = @ + b.num_non_market,
       !.fact_amt_2_sum_rynek = FAdd(@, b.fact_amt_2_sum_rynek),
       !.fact_amt_sum_rynek = FAdd(@, b.fact_amt_sum_rynek),
       !.field_11_sum_rynek = FAdd(@, b.field_11_sum_rynek)]

SegmentsOf(segments) == {segments[i].seg : i \in 1..Len(segments)}

ValsOf(segments, seg) ==
    IF seg \in SegmentsOf(segments)
    THEN segments[SegIndex(segments, seg)].vals
    ELSE NewVals

\* The metrics of two partial aggregations merged, as a map from segment.
MergedMetrics(a, b) ==
    [seg \in SegmentsOf(a) \cup SegmentsOf(b) |->
        Derive(AddVals(ValsOf(a, seg), ValsOf(b, seg)))]

MetricsMap(segments) ==
    [seg \in SegmentsOf(segments) |-> ValsOf(segments, seg)]

\* Merging the two parts of the split S of data gives the metrics the
\* run computed in one pass.
SplitAgrees(data, S) ==
    MergedMetrics(Accumulators(Part(data, S, 1)),
                  Accumulators(Part(data, (1..Len(data)) \ S, 1)))
        = MetricsMap(segment_metrics)

RECURSIVE SumAbs(_, _)
SumAbs(data, field) ==
    IF data = << >> THEN 0
    ELSE Abs(NumOrZero(Head(data)[field])) + SumAbs(Tail(data), field)

\* Every sum of the amounts is a whole number a float holds exactly.
ExactlySummable(data) ==
    \A field \in {"fact_amt", "fact_amt_2", "field_11_value_n"} :
        SumAbs(data, field) <= Pow2(MantBits)

IsFallback(vals) == vals.avg_check = [n |-> DefaultAvgCheck, d |-> 1]

\* avg_check is the quotient of the two market sums.
IsQuotient(vals) ==
    /\ vals.fact_amt_sum_rynek # 0
    /\ vals.avg_check.n * vals.fact_amt_sum_rynek
           = vals.fact_amt_2_sum_rynek * vals.avg_check.d

\* C6 as stated: avg_check is the fallback iff the market primary sum is
\* zero, and the quotient otherwise.
C6_FallbackIffZero ==
    Aggregated =>
        \A i \in 1..Len(segment_metrics) :
            LET vals == segment_metrics[i].vals
            IN  /\ IsFallback(vals) <=> vals.fact_amt_sum_rynek = 0
                /\ vals.fact_amt_sum_rynek # 0 => IsQuotient(vals)

\* C6 amended: avg_check is the fallback whenever the market primary sum
\* is not positive (zero or negative), and the quotient whenever it is
\* positive.
C6_FallbackWhenNotPositive ==
    Aggregated =>
        \A i \in 1..Len(segment_metrics) :
            LET vals == segment_metrics[i].vals
            IN  /\ vals.fact_amt_sum_rynek <= 0 => IsFallback(vals)
                /\ vals.fact_amt_sum_rynek > 0 => IsQuotient(vals)

C6_Witness ==
    /\ Aggregated
    /\ Len(segment_metrics) = 2
    /\ segment_metrics[1].vals.fact_amt_sum_rynek < 0
    /\ IsFallback(segment_metrics[1].vals)
    /\ segment_metrics[2].vals.fact_amt_sum_rynek = 2
    /\ segment_metrics[2].vals.avg_check = [n |-> 3, d |-> 1]

(***************************************************************************)
(* Inputs of the evaluation and claims about step_2_calculate_potential    *)
(* (checked under SpecEval).                                               *)
(***************************************************************************)
EvalRows ==
    {MkRow("3", "100000", sr[1], sr[2], "47.8", "r1", "s1", "5", "t1") :
        sr \in {<<"MMB", "Rynok">>, <<"MMB", "Klient">>, <<"KSB", "Rynok">>}}

MinEntries ==
    {MinEntry("K1", "MMB", 2), MinEntry("K1", "MMB", 4),
     MinEntry("K2", "MMB", 2), MinEntry("K1", "KSB", 2)}

CostEntries ==
    {CostEntry("K1", "Korobka", "Sebestoimost", "MMB", 1),
     CostEntry("K1", "Korobka", "Sebestoimost", "MMB", 4000),
     CostEntry("K1", "Korobka", "Sebestoimost", "KSB", 4000),
     CostEntry("K1", "Kastom", "Sebestoimost", "MMB", 4000),
     CostEntry("K1", "Korobka", "Tsena", "MMB", 4000)}

InitEval ==
    \E rows \in SeqUpTo(EvalRows, MaxRecords),
       mincfg \in SeqUpTo(MinEntries, MaxChannels),
       costcfg \in SeqUpTo(CostEntries, MaxCostEntries) :
        Start(<<rows>>, << >>, NoParams, "Korobka", mincfg, costcfg,
              MmbDefaults)

SpecEval == InitEval /\ [][Next]_vars

Done == pc = "done"

RowsOfSegment(results, seg) ==
    SelectSeq(results, LAMBDA r : r.Segment = seg)

EligibleChannels(seg) ==
    SelectSeq(MIN_CLIENTS_CONFIG, LAMBDA c : c.Segment = seg)

\* The (segment, channel entry) pairs of a run: segment i of the metrics
\* and the j-th table entry of its channels; Row is the row the run
\* returned for the pair.
Pairs ==
    {<<i, j>> \in (1..Len(segment_metrics)) \X (1..Len(MIN_CLIENTS_CONFIG)) :
        j <= Len(EligibleChannels(segment_metrics[i].seg))}

PairChannel(p) == EligibleChannels(segment_metrics[p[1]].seg)[p[2]]

PairRowExists(p) ==
    p[2] <= Len(RowsOfSegment(potential_results, segment_metrics[p[1]].seg))

PairRow(p) == RowsOfSegment(potential_results, segment_metrics[p[1]].seg)[p[2]]

BelowMinimum(p) ==
    CalcClients(segment_metrics[p[1]].vals) < PairChannel(p).MinKlientov

AmountsAllZero(row) ==
    /\ row.potential_amount = 0 /\ row.rate_ab = 0 /\ row.amount_ab = 0
    /\ row.amount_chkd = 0 /\ row.revenue = 0 /\ row.total_potential = 0

\* C7: a (segment, channel) below the channel's minimum gets a "net" row
\* with every amount 0, whatever the other inputs are.
C7_BelowMinimumIsNo ==
    Done =>
        \A p \in Pairs :
            BelowMinimum(p) =>
                /\ PairRowExists(p)
                /\ PairRow(p).Kanal = PairChannel(p).Kanal
                /\ PairRow(p).Reshenie = "net"
                /\ AmountsAllZero(PairRow(p))

C7_Witness ==
    /\ Done
    /\ \E p \in Pairs :
           /\ BelowMinimum(p)
           /\ PairChannel(p) = MinEntry("K1", "MMB", 4)
           /\ PairRow(p).calc_clients = 3
           /\ PairRow(p).Reshenie = "net"
           /\ PairRow(p).Poyasnenie = "Malo klientov"
           /\ COST_PRICE_CONFIG
                  = <<CostEntry("K1", "Korobka", "Sebestoimost", "MMB", 4000)>>

\* C8: every "net" row has every amount 0.
C8_NoRowsAllZero ==
    Done =>
        \A k \in 1..Len(potential_results) :
            potential_results[k].Reshenie = "net"
                => AmountsAllZero(potential_results[k])

\* The cost price and average amount the row of a pair is computed from.
PairCost(p) ==
    _get_cost_price(COST_PRICE_CONFIG, PairChannel(p).Kanal,
                    segment_metrics[p[1]].seg, product_type)

PairAvg(p) == AvgCheckOrDefault(segment_metrics[p[1]].vals)

\* |cost / avg * 100| < 0.05: the rate rounds to 0.0 at one decimal.
RateRoundsToZero(p) ==
    2000 * Abs(PairCost(p)) * PairAvg(p).d < Abs(PairAvg(p).n)

\* C9: past the minimum-clients check, a rate that rounds to 0.0 gives a
\* "net" row with the rate explanation and no ab, chkd, revenue or total
\* amount, also for a positive cost price and a positive average amount.
C9_ZeroRateIsNo ==
    Done =>
        \A p \in Pairs :
            (~BelowMinimum(p) /\ RateRoundsToZero(p)) =>
                /\ PairRowExists(p)
                /\ PairRow(p).Reshenie = "net"
                /\ PairRow(p).Poyasnenie = "Stavka 0% posle okrugleniya"
                /\ PairRow(p).rate_ab = 0
                /\ PairRow(p).amount_ab = 0 /\ PairRow(p).amount_chkd = 0
                /\ PairRow(p).revenue = 0 /\ PairRow(p).total_potential = 0

C9_Witness ==
    /\ Done
    /\ \E p \in Pairs :
           /\ ~BelowMinimum(p) /\ RateRoundsToZero(p)
           /\ PairCost(p) > 0 /\ PairAvg(p).n > 0
           /\ segment_metrics[p[1]].vals.fact_amt_sum_rynek > 0
           /\ PairRow(p).Reshenie = "net"
           /\ PairRow(p).potential_amount > 0

\* The reference table has no cost price for the pair.
CostMissing(p) ==
    ~\E k \in 1..Len(COST_PRICE_CONFIG) :
        /\ COST_PRICE_CONFIG[k].Kanal = PairChannel(p).Kanal
        /\ COST_PRICE_CONFIG[k].Segment = segment_metrics[p[1]].seg
        /\ COST_PRICE_CONFIG[k].TipProdukta = product_type
        /\ COST_PRICE_CONFIG[k].TipSummy = "Sebestoimost"

\* The result of the run had the pair's entry been in the table.
ResultsWithEntry(p, amount) ==
    step_2_calculate_potential(segment_metrics, segment_params, product_type,
        MIN_CLIENTS_CONFIG,
        Append(COST_PRICE_CONFIG,
               CostEntry(PairChannel(p).Kanal, product_type, "Sebestoimost",
                         segment_metrics[p[1]].seg, amount)),
        SEGMENT_DEFAULTS)

IsRowOfPair(row, p) ==
    /\ row.Segment = segment_metrics[p[1]].seg
    /\ row.Kanal = PairChannel(p).Kanal

SameOtherRows(p, other) ==
    /\ Len(other) = Len(potential_results)
    /\ \A k \in 1..Len(potential_results) :
           ~IsRowOfPair(potential_results[k], p)
               => other[k] = potential_results[k]

\* C10 as stated: a pair with no cost price in the table gets a "net" row
\* with a missing-reference explanation and every amount 0.
C10_MissingCostIsNo ==
    Done =>
        \A p \in Pairs :
            (~BelowMinimum(p) /\ CostMissing(p)) =>
                /\ PairRow(p).Reshenie = "net"
                /\ PairRow(p).Poyasnenie = "Net sebestoimosti"
                /\ AmountsAllZero(PairRow(p))

\* C10 amended: a pair with no cost price in the table is evaluated with
\* the default cost price, exactly as if the table held that amount for
\* it; the rows of the other pairs are what they would be with an entry
\* of any amount present.
C10_MissingCostUsesDefault ==
    Done =>
        \A p \in Pairs :
            CostMissing(p) =>
                /\ PairCost(p) = DefaultCostPrice
                /\ ResultsWithEntry(p, DefaultCostPrice) = potential_results
                /\ \A amount \in {1, 4000} :
                       SameOtherRows(p, ResultsWithEntry(p, amount))

C10_Witness ==
    /\ Done
    /\ Len(potential_results) = 2
    /\ \E p \in Pairs :
           /\ CostMissing(p) /\ ~BelowMinimum(p)
           /\ PairRow(p).Reshenie = "da"
           /\ PairRow(p).rate_ab = 30
           /\ ~IsRowOfPair(potential_results[2], p)
           /\ potential_results[2].Reshenie = "da"
           /\ ResultsWithEntry(p, 1) # potential_results

(***************************************************************************)
(* Inputs of the decision chain and claims about the rows it computes      *)
(* (checked under SpecChain).                                              *)
(***************************************************************************)
\* Market rows: two of segment "A" (amounts 600 000 and 400 000, secondary
\* amounts 1 000 000 each) and three of segment "MMB" with a positive, a
\* negative and a zero secondary amount.
ChainRows ==
    {MkRow("600000", "1000000", "A", "Rynok", "47.8", "r1", "s1", "5", "t1"),
     MkRow("400000", "1000000", "A", "Rynok", "47.8", "r1", "s1", "5", "t1"),
     MkRow("400000", "2000000", "MMB", "Rynok", "47.8", "r1", "s1", "5", "t1"),
     MkRow("3", "-2", "MMB", "Rynok", "47.8", "r1", "s1", "5", "t1"),
     MkRow("3", "0", "MMB", "Rynok", "47.8", "r1", "s1", "5", "t1")}

ChainMinCfg == <<MinEntry("K1", "A", 1), MinEntry("K1", "MMB", 2)>>

ChainCostCfgs ==
    {<<CostEntry("K1", "Korobka", "Sebestoimost", "A", 100000),
       CostEntry("K1", "Korobka", "Sebestoimost", "MMB", amount)>> :
        amount \in {1, 4000}}

\* segment_params: nothing, one field of one segment, both fields.
ChainParams ==
    {NoParams,
     [s \in {"MMB"} |-> [kpr |-> 20]],
     [s \in {"MMB"} |-> [dolya |-> 50, kpr |-> 20]],
     [s \in {"A"} |-> [dolya |-> 50, kpr |-> 20]]}

InitChain ==
    \E rows \in SeqUpTo(ChainRows, MaxRecords),
       costcfg \in ChainCostCfgs,
       params \in ChainParams :
        Start(<<rows>>, << >>, params, "Korobka", ChainMinCfg, costcfg,
              MmbDefaults)

SpecChain == InitChain /\ [][Next]_vars

\* The average check step 1 stored for the pair's segment.
PairAvgCheck(p) == segment_metrics[p[1]].vals.avg_check

\* C11: past the minimum-clients check, an average amount that is not
\* greater than 0 gives a "net" row with the zero-average reason and every
\* amount 0; no "da" row comes from such an average amount.
C11_NonPositiveAverageIsNo ==
    Done =>
        \A p \in Pairs :
            (~BelowMinimum(p) /\ PairAvgCheck(p).n <= 0) =>
                /\ PairRow(p).Reshenie = "net"
                /\ PairRow(p).Poyasnenie = "Nulevoi srednii chek"
                /\ AmountsAllZero(PairRow(p))

(***************************************************************************)
(* Claims about the shape of the decision rows (checked under SpecEval).   *)
(***************************************************************************)
\* C12: every segment of a decision row is a key of the segment metrics,
\* and a segment with metrics but no channel in MIN_CLIENTS_CONFIG has no
\* row at all.
C12_RowsOnlyOfEligibleSegments ==
    Done =>
        /\ \A k \in 1..Len(potential_results) :
               potential_results[k].Segment \in SegmentsOf(segment_metrics)
        /\ \A i \in 1..Len(segment_metrics) :
               EligibleChannels(segment_metrics[i].seg) = << >>
                   => RowsOfSegment(potential_results,
                                    segment_metrics[i].seg) = << >>

C12_Witness ==
    /\ Done
    /\ SegmentsOf(segment_metrics) = {"MMB", "KSB"}
    /\ Len(MIN_CLIENTS_CONFIG) = 2
    /\ EligibleChannels("KSB") = << >>
    /\ Len(potential_results) = 2
    /\ \A k \in 1..2 : potential_results[k].Segment = "MMB"

\* The number of rows due before those of segment i: the channels of the
\* segments that precede it in the metrics.
RECURSIVE RowsBefore(_)
RowsBefore(i) ==
    IF i <= 1 THEN 0
    ELSE RowsBefore(i - 1)
         + Len(EligibleChannels(segment_metrics[i - 1].seg))

\* C16: there is exactly one row for each (segment with metrics, channel
\* entry of that segment) and no other row; the rows are ordered by
\* segment as in the metrics and, within a segment, by channel as in the
\* reference table; the rows are a function of the inputs.
C16_OneRowPerPairInOrder ==
    Done =>
        /\ Len(potential_results) = Cardinality(Pairs)
        /\ \A p \in Pairs :
               LET row == potential_results[RowsBefore(p[1]) + p[2]]
               IN  /\ row.Segment = segment_metrics[p[1]].seg
                   /\ row.Kanal = PairChannel(p).Kanal
                   /\ row.calc_clients = CalcClients(segment_metrics[p[1]].vals)
                   /\ row.Reshenie = "net" /\ row.Poyasnenie = "Malo klientov"
                          <=> BelowMinimum(p)
        /\ potential_results
               = step_2_calculate_potential(segment_metrics, segment_params,
                     product_type, MIN_CLIENTS_CONFIG, COST_PRICE_CONFIG,
                     SEGMENT_DEFAULTS)

C16_Witness ==
    /\ Done
    /\ Len(segment_metrics) = 2
    /\ segment_metrics[1].seg = "MMB" /\ segment_metrics[2].seg = "KSB"
    /\ MIN_CLIENTS_CONFIG = <<MinEntry("K1", "KSB", 2), MinEntry("K1", "MMB", 2)>>
    /\ Len(potential_results) = 2
    /\ potential_results[1].Segment = "MMB"
    /\ potential_results[2].Segment = "KSB"

(***************************************************************************)
(* Inputs of the loader and claims about load_all_data and the pipeline    *)
(* as a whole (checked under SpecLoad).                                    *)
(***************************************************************************)
\* A full row, a short row, a blank line, a row whose staff count is
\* infinite, a row of unparsable and null fields, a row whose staff count
\* is half the float range.
LoadRows ==
    {MkRow("1", "3", "MMB", "Rynok", "47.8", "r1", "s1", "5", "t1"),
     <<"1", "1", "p", " 1 ">>,
     <<" ">>,
     MkRow("1", "3", "MMB", "Rynok", "47.8", "r1", "s1", "inf", "t1"),
     MkRow("abc", "NULL", "MMB", "Rynok", "47.8", "r1", "s1", "None", "t1"),
     MkRow("1", "3", "MMB", "Rynok", "47.8", "r1", "s1", "1e308", "t1")}

\* The rows in two files: the first k (at most all) and the others.
SplitAt(rows, k) ==
    LET n == IF k < Len(rows) THEN k ELSE Len(rows)
    IN  <<[i \in 1..n |-> rows[i]],
          [i \in 1..(Len(rows) - n) |-> rows[i + n]]>>

\* No file at all, or the rows in two files.
LoadFiles ==
    {<< >>} \cup
    {SplitAt(rows, k) :
        rows \in SeqUpTo(LoadRows, MaxLoadRows), k \in 0..MaxLoadRows}

LoadFilters == {<< >>, [industries |-> <<"62.1">>]}

InitLoad ==
    \E fs \in LoadFiles, f \in LoadFilters :
        Start(fs, f, NoParams, "Korobka", FilterMinCfg, FilterCostCfg,
              MmbDefaults)

SpecLoad == InitLoad /\ [][Next]_vars

\* filter_data has run (the run may have ended in an exception later).
PastFilter == pc \in {"filtered", "aggregated", "done", "raised"}

\* C13: with no input file, or with records none of which satisfies the
\* criteria, the run does not raise and returns no filtered record, no
\* segment metrics and no decision row.
C13_EmptyInputEmptyResult ==
    ( /\ PastFilter
      /\ \/ files = << >>
         \/ \A i \in 1..Len(all_data) : ~SatisfiesAll(all_data[i]) )
        => /\ pc # "raised"
           /\ Len(filtered_data) = 0
           /\ segment_metrics = << >>
           /\ potential_results = << >>
           /\ pc = "filtered" => ~Step1Raises(filtered_data)

C13_Witness ==
    /\ Done
    /\ Len(all_data) = 2
    /\ \A i \in 1..2 : all_data[i].field_11_value_n = Some(Pow2(MaxExp - 1))
    /\ \A i \in 1..2 : ~SatisfiesAll(all_data[i])
    /\ Len(filtered_data) = 0
    /\ segment_metrics = << >> /\ potential_results = << >>

\* C14: no step of the pipeline raises.
C14_NoStepRaises == pc # "raised"

\* All lines of all files, in file order then line order.
RECURSIVE AllRows(_)
AllRows(fs) == IF fs = << >> THEN << >> ELSE Head(fs) \o AllRows(Tail(fs))

\* The rows the loader keeps: not blank, and their conversion does not
\* raise.
KeptRows ==
    SelectSeq(AllRows(files), LAMBDA row : ~IsBlank(row) /\ ~RowRaises(row))

\* The text of column i (0-based) of a row; empty when the row is shorter.
Column(row, i) == IF i + 1 <= Len(row) THEN row[i + 1] ELSE ""

\* Field texts that are empty, null or not a number.
NullTexts == {"", " ", "NULL", "None", "abc"}

\* The numeric fields of a record with the columns they are read from.
NumericColumns ==
    {<<"id_lvl_1", 0>>, <<"id_lvl_2", 1>>, <<"fact_amt", 3>>,
     <<"fact_amt_2", 4>>, <<"field_11_value_n", 14>>}

\* The string fields of a record with the columns they are read from.
StringColumns ==
    {<<"parameter_id", 2>>, <<"field_1_value_s", 5>>, <<"field_3_value_s", 6>>,
     <<"field_4_value_s", 7>>, <<"field_5_value_s", 8>>,
     <<"field_8_value_s", 11>>, <<"field_9_value_s", 12>>,
     <<"field_2_value_s", 19>>}

\* C17: the loader returns one record for each row that is not blank and
\* whose conversion does not raise, in file order then row order; rows
\* after a dropped row are still loaded; a short row is read as if padded
\* with empty fields; an empty, null or unparsable field is None and a
\* numeric field is 0 only for the text "0".
C17_LoaderKeepsGoing ==
    pc # "start" =>
        /\ Len(all_data) = Len(KeptRows)
        /\ \A k \in 1..Len(KeptRows) :
               LET row == KeptRows[k]
                   record == all_data[k]
               IN  /\ \A c \in NumericColumns :
                          /\ Column(row, c[2]) \in NullTexts
                                 => record[c[1]] = None
                          /\ record[c[1]] = Some(0) => Column(row, c[2]) = "0"
                          /\ Column(row, c[2]) \in {"1", " 1 "}
                                 => record[c[1]] = Some(1)
                   /\ \A c \in StringColumns :
                          /\ Column(row, c[2]) \in {"", " "}
                                 => record[c[1]] = None
                          /\ Column(row, c[2]) \notin {"", " "}
                                 => record[c[1]] = Some(Column(row, c[2]))

C17_Witness ==
    /\ pc = "loaded"
    /\ Len(files) = 2 /\ Len(files[1]) = 2 /\ Len(files[2]) = 1
    /\ RowRaises(files[1][1])
    /\ Len(files[1][2]) = 4
    /\ Len(all_data) = 2
    /\ all_data[1].fact_amt = Some(1) /\ all_data[1].field_1_value_s = None
    /\ all_data[2].field_1_value_s = Some("MMB")
    /\ all_data[2].fact_amt = None /\ all_data[2].field_11_value_n = None

(***************************************************************************)
(* The end-to-end example and the amounts of a "da" row (checked under     *)
(* SpecChain).                                                             *)
(***************************************************************************)
\* The run of the example: the records are the two Market records of
\* segment "A" with primary amounts 600 000 and 400 000 and secondary
\* amounts summing to 2 000 000; segment "A" has one channel, with
\* min-clients 1 and cost price 100 000.
IsExample ==
    /\ Done
    /\ Len(filtered_data) = 2
    /\ \A i \in 1..2 :
           /\ filtered_data[i].field_1_value_s = Some("A")
           /\ filtered_data[i].field_4_value_s = Some("Rynok")
    /\ {filtered_data[1].fact_amt, filtered_data[2].fact_amt}
           = {Some(600000), Some(400000)}
    /\ filtered_data[1].fact_amt_2[1] + filtered_data[2].fact_amt_2[1] = 2000000
    /\ EligibleChannels("A") = <<MinEntry("K1", "A", 1)>>
    /\ _get_cost_price(COST_PRICE_CONFIG, "K1", "A", product_type) = 100000

\* C15 as stated: the example gives average_check 2.0, rate 10.0,
\* potential_amount 0.1, ab_amount 0.01 and decision "da".
C15_ExampleAsStated ==
    IsExample =>
        /\ segment_metrics[1].vals.avg_check = [n |-> 2, d |-> 1]
        /\ Len(potential_results) = 1
        /\ potential_results[1].rate_ab = 100
        /\ potential_results[1].potential_amount = 100
        /\ potential_results[1].amount_ab = 10
        /\ potential_results[1].Reshenie = "da"

\* C15 amended: the example gives average_check 2.0, potential_amount 0.1,
\* rate 100 000 / 2.0 * 100 = 5 000 000.0, ab_amount 0.1 * 5 000 000 / 100
\* = 5000.0 and decision "da".
C15_ExampleAsComputed ==
    IsExample =>
        /\ segment_metrics[1].vals.avg_check = [n |-> 2, d |-> 1]
        /\ Len(potential_results) = 1
        /\ potential_results[1].rate_ab = 50000000
        /\ potential_results[1].potential_amount = 100
        /\ potential_results[1].amount_ab = 5000000
        /\ potential_results[1].Reshenie = "da"

C15_Witness ==
    /\ IsExample
    /\ segment_metrics[1].vals.Rynok = 1000000
    /\ segment_metrics[1].vals.num_non_market = 0
    /\ potential_results[1].calc_clients = 1000000
    /\ potential_results[1].Reshenie = "da"

\* r is an integer nearest to a * b * c / d (d > 0).
IsNearestProduct(r, a, b, c, d) ==
    LET sgn == IF Cardinality({i \in 1..3 : <<a, b, c>>[i] < 0}) % 2 = 1
               THEN -1 ELSE 1
        m1 == MulDivMod(Abs(a), Abs(b), d)
        m2 == MulDivMod(m1.r, Abs(c), d)
        whole == m1.q * Abs(c) + m2.q
    IN  \/ r = sgn * whole /\ 2 * m2.r <= d
        \/ r = sgn * (whole + 1) /\ 2 * m2.r >= d

\* r is an integer nearest to the fraction q.
IsNearest(r, q) == 2 * Abs(r * q.d - q.n) <= q.d

\* The share or coefficient of a segment: the supplied value if there is
\* one, else the segment's default; none when there is neither.
ParamOf(seg, key) ==
    IF seg \in DOMAIN segment_params /\ key \in DOMAIN segment_params[seg]
    THEN Some(segment_params[seg][key])
    ELSE IF seg \in DOMAIN SEGMENT_DEFAULTS[key]
    THEN Some(SEGMENT_DEFAULTS[key][seg])
    ELSE None

\* C20: in a "da" row of a segment whose share and coefficient are
\* available, ab_amount is potential_amount * rate / 100 from the row's
\* rounded potential_amount and rate, chkd_amount is ab_amount * share /
\* 100, revenue is chkd_amount * coefficient / 100 and total_potential is
\* their sum, each rounded to 3 decimals.  (Amounts in thousandths, the
\* rate in tenths.)
C20_YesRowAmounts ==
    Done =>
        \A p \in Pairs :
            LET row == PairRow(p)
                share == ParamOf(row.Segment, "dolya")
                coef == ParamOf(row.Segment, "kpr")
                pa == row.potential_amount
                rate == row.rate_ab
            IN  (row.Reshenie = "da" /\ share # None /\ coef # None) =>
                    /\ IsNearestProduct(row.amount_ab, pa, rate, 1, 1000)
                    /\ IsNearestProduct(row.amount_chkd, pa, rate, share[1],
                                        100000)
                    /\ IsNearestProduct(row.revenue, pa, rate,
                                        share[1] * coef[1], 10000000)
                    /\ IsNearestProduct(row.total_potential, pa, rate,
                                        10000 + 100 * share[1]
                                            + share[1] * coef[1],
                                        10000000)

C20_Witness ==
    /\ Done
    /\ segment_params = [s \in {"MMB"} |-> [kpr |-> 20]]
    /\ \E p \in Pairs :
           /\ PairRow(p).Reshenie = "da"
           /\ PairRow(p).Segment = "MMB"
           /\ PairRow(p).potential_amount = 100
           /\ PairRow(p).rate_ab = 200
           /\ PairRow(p).amount_ab = 20
           /\ PairRow(p).amount_chkd = 1
           /\ PairRow(p).revenue = 0
           /\ PairRow(p).total_potential = 21

\* Neither an explicit nor a default share, and neither an explicit nor a
\* default coefficient, exists for the segment.
NeitherAvailable(seg) ==
    ParamOf(seg, "dolya") = None /\ ParamOf(seg, "kpr") = None

\* C21 as stated: a "da" row of a segment with neither share nor
\* coefficient has chkd_amount, revenue and total_potential all 0.
C21_DownstreamAllZero ==
    Done =>
        \A p \in Pairs :
            (PairRow(p).Reshenie = "da" /\ NeitherAvailable(PairRow(p).Segment))
                => /\ PairRow(p).amount_chkd = 0
                   /\ PairRow(p).revenue = 0
                   /\ PairRow(p).total_potential = 0

\* C21 amended: a "da" row of a segment with neither share nor coefficient
\* has chkd_amount 0 and revenue 0, and its total_potential equals its
\* ab_amount.
C21_TotalIsAbAmount ==
    Done =>
        \A p \in Pairs :
            (PairRow(p).Reshenie = "da" /\ NeitherAvailable(PairRow(p).Segment))
                => /\ PairRow(p).amount_chkd = 0
                   /\ PairRow(p).revenue = 0
                   /\ PairRow(p).total_potential = PairRow(p).amount_ab

C21_Witness ==
    /\ Done
    /\ \E p \in Pairs :
           /\ PairRow(p).Reshenie = "da"
           /\ PairRow(p).Segment = "A"
           /\ NeitherAvailable("A")
           /\ PairRow(p).amount_ab = 5000000
           /\ PairRow(p).amount_chkd = 0
           /\ PairRow(p).revenue = 0
           /\ PairRow(p).total_potential = 5000000

(***************************************************************************)
(* Inputs of the metrics and claims about the buckets and averages of      *)
(* step_1_evaluate_market (checked under SpecMetrics).                     *)
(***************************************************************************)
\* Rows of every relationship label (the three known ones, an unknown one,
\* none) with and without a segment label; primary amounts are positive,
\* negative and absent.
MetricRows ==
    {MkRow(fact_amt, "16384", seg, rel, "47.8", "r1", "s1", "5", "t1") :
        fact_amt \in {"1", "3", "-2", ""},
        seg \in {"MMB", ""},
        rel \in {"Rynok", "Klient", "NeKlient", "Drugoe", ""}}

InitMetrics ==
    \E rows \in SeqUpTo(MetricRows, MaxMetricRows) :
        Start(<<rows>>, << >>, NoParams, "Korobka", FilterMinCfg, AggCostCfg,
              MmbDefaults)

SpecMetrics == InitMetrics /\ [][Next]_vars

\* The segment label a record is grouped under.
GroupOf(record) ==
    IF record.field_1_value_s = None THEN "Neizvestno"
    ELSE record.field_1_value_s[1]

\* The sum of a numeric field (absent counted as 0) over the records of
\* segment seg whose relationship label is label.
RECURSIVE BucketSum(_, _, _, _)
BucketSum(data, seg, label, field) ==
    IF data = << >> THEN 0
    ELSE (IF GroupOf(Head(data)) = seg
             /\ Head(data).field_4_value_s = Some(label)
             /\ Head(data)[field] # None
          THEN Head(data)[field][1] ELSE 0)
         + BucketSum(Tail(data), seg, label, field)

\* The number of records of segment seg whose label is not Market.
NonMarketRows(data, seg) ==
    Cardinality({i \in 1..Len(data) :
                    /\ GroupOf(data[i]) = seg
                    /\ data[i].field_4_value_s # Some("Rynok")})

\* C18: average_revenue (millions, 3 decimals) and average_staff (integer)
\* are the Market secondary sum and the Market staff sum divided by
\* denominator = Market primary sum + number of non-Market rows, and both
\* are 0 when the denominator is not positive.
C18_AveragesOverDenominator ==
    Aggregated =>
        \A i \in 1..Len(segment_metrics) :
            LET seg == segment_metrics[i].seg
                vals == segment_metrics[i].vals
                denominator ==
                    BucketSum(filtered_data, seg, "Rynok", "fact_amt")
                        + NonMarketRows(filtered_data, seg)
                secondary ==
                    BucketSum(filtered_data, seg, "Rynok", "fact_amt_2")
                staff ==
                    BucketSum(filtered_data, seg, "Rynok", "field_11_value_n")
            IN  /\ denominator > 0 =>
                       /\ IsNearest(vals.SrednyayaVyruchka,
                                    [n |-> secondary, d |-> denominator * 1000])
                       /\ IsNearest(vals.SredneeKolSotr,
                                    [n |-> staff, d |-> denominator])
                /\ denominator <= 0 =>
                       /\ vals.SrednyayaVyruchka = 0
                       /\ vals.SredneeKolSotr = 0

C18_Witness ==
    /\ Aggregated
    /\ Len(filtered_data) = 2 /\ Len(segment_metrics) = 1
    /\ filtered_data[1].field_4_value_s = Some("Rynok")
    /\ filtered_data[1].fact_amt = Some(3)
    /\ filtered_data[2].field_4_value_s = Some("Klient")
    /\ segment_metrics[1].vals.SrednyayaVyruchka = 4
    /\ segment_metrics[1].vals.SredneeKolSotr = 1

\* C19: per segment, the Market, Client and NonClient sums are the sums of
\* the primary amounts of the records carrying that label, so that a
\* record counts in at most one of them and one with another or no label
\* in none; the non-Market count is the number of the segment's records
\* whose label is not Market; the segments are the records' segment
\* labels, "Neizvestno" standing for an absent one.
C19_BucketsByLabel ==
    Aggregated =>
        /\ SegmentsOf(segment_metrics)
               = {GroupOf(filtered_data[k]) : k \in 1..Len(filtered_data)}
        /\ \A i \in 1..Len(segment_metrics) :
               LET seg == segment_metrics[i].seg
                   vals == segment_metrics[i].vals
               IN  /\ vals.Rynok
                          = BucketSum(filtered_data, seg, "Rynok", "fact_amt")
                   /\ vals.AktivnyeKlienty
                          = BucketSum(filtered_data, seg, "Klient", "fact_amt")
                   /\ vals.SpyashchieNeKlienty
                          = BucketSum(filtered_data, seg, "NeKlient", "fact_amt")
                   /\ vals.num_non_market = NonMarketRows(filtered_data, seg)

C19_Witness ==
    /\ Aggregated
    /\ Len(filtered_data) = 2 /\ Len(segment_metrics) = 1
    /\ segment_metrics[1].seg = "Neizvestno"
    /\ filtered_data[1].field_4_value_s = Some("Drugoe")
    /\ filtered_data[1].fact_amt = Some(3)
    /\ filtered_data[2].field_4_value_s = None
    /\ filtered_data[2].fact_amt = Some(1)
    /\ segment_metrics[1].vals.num_non_market = 2
    /\ segment_metrics[1].vals.Rynok = 0
    /\ segment_metrics[1].vals.AktivnyeKlienty = 0
    /\ segment_metrics[1].vals.SpyashchieNeKlienty = 0

(***************************************************************************)
(* Concurrent calls of calculate_potential_full_pipeline.  Each call has   *)
(* its own arguments and locals; the reference tables are the module-level *)
(* tables every call reads.  One action per call of the pipeline body, for *)
(* either call, so that the calls interleave in every order.               *)
(***************************************************************************)
\* The arguments and the locals of a call that has not started.
Call(fs, f, params, ptype) ==
    [pc |-> "start", files |-> fs, filters |-> f, segment_params |-> params,
     product_type |-> ptype, all_data |-> << >>, filtered_data |-> << >>,
     segment_metrics |-> << >>, potential_results |-> << >>]

\* all_data = load_all_data(data_directory)
CallLoad(c) ==
    [c EXCEPT !.all_data = load_all_data(c.files), !.pc = "loaded"]

\* filtered_data = filter_data(all_data, filters)
CallFilter(c) ==
    [c EXCEPT !.filtered_data = filter_data(c.all_data, c.filters),
              !.pc = "filtered"]

\* segment_metrics = step_1_evaluate_market(filtered_data)
CallStep1(c) ==
    IF Step1Raises(c.filtered_data)
    THEN [c EXCEPT !.pc = "raised"]
    ELSE [c EXCEPT !.segment_metrics =
                       step_1_evaluate_market(c.filtered_data),
                   !.pc = "aggregated"]

\* potential_results = step_2_calculate_potential(...)
CallStep2(c) ==
    [c EXCEPT !.potential_results =
                  step_2_calculate_potential(c.segment_metrics,
                      c.segment_params, c.product_type, MIN_CLIENTS_CONFIG,
                      COST_PRICE_CONFIG, SEGMENT_DEFAULTS),
              !.pc = "done"]

\* The lists and dicts of a call kept in module-level names, which every
\* call assigns.
ShareLocals(calls, i, c) ==
    [j \in DOMAIN calls |->
        IF j = i THEN c
        ELSE [calls[j] EXCEPT !.all_data = c.all_data,
                              !.filtered_data = c.filtered_data,
                              !.segment_metrics = c.segment_metrics,
                              !.potential_results = c.potential_results]]

\* The lists and dicts a call builds are its locals: a step of call i
\* assigns the names of call i.
KeepLocals(calls, i, c) == [calls EXCEPT ![i] = c]

InvokeLoad(i) ==
    /\ invocations[i].pc = "start"
    /\ invocations' = KeepLocals(invocations, i, CallLoad(invocations[i]))
    /\ UNCHANGED <<engineVars, chatVars, botVars>>

InvokeFilter(i) ==
    /\ invocations[i].pc = "loaded"
    /\ invocations' = KeepLocals(invocations, i, CallFilter(invocations[i]))
    /\ UNCHANGED <<engineVars, chatVars, botVars>>

InvokeStep1(i) ==
    /\ invocations[i].pc = "filtered"
    /\ invocations' = KeepLocals(invocations, i, CallStep1(invocations[i]))
    /\ UNCHANGED <<engineVars, chatVars, botVars>>

InvokeStep2(i) ==
    /\ invocations[i].pc = "aggregated"
    /\ invocations' = KeepLocals(invocations, i, CallStep2(invocations[i]))
    /\ UNCHANGED <<engineVars, chatVars, botVars>>

NextTwo ==
    \E i \in DOMAIN invocations :
        InvokeLoad(i) \/ InvokeFilter(i) \/ InvokeStep1(i) \/ InvokeStep2(i)

\* No pipeline call of the single-call machine is active; the tables are
\* given.
EngineIdle(mincfg, costcfg, defaults) ==
    /\ pc = "idle"
    /\ files = << >>
    /\ filters = << >>
    /\ segment_params = NoParams
    /\ product_type = "Korobka"
    /\ MIN_CLIENTS_CONFIG = mincfg
    /\ COST_PRICE_CONFIG = costcfg
    /\ SEGMENT_DEFAULTS = defaults
    /\ all_data = << >>
    /\ filtered_data = << >>
    /\ segment_metrics = << >>
    /\ potential_results = << >>

\* Nobody has called the chat front end.
ChatIdle ==
    /\ _SESSIONS = << >>
    /\ heap = << >>
    /\ chat_env = << >>
    /\ chat_last = << >>

\* Market rows of segment "MMB" of two industries, one of them with a
\* staff count whose sum over two rows is infinite.
TwoRows ==
    {MkRow("400000", "2000000", "MMB", "Rynok", "62.1", "r1", "s1", "5", "t1"),
     MkRow("3", "-2", "MMB", "Rynok", "47.8", "r1", "s1", "1e308", "t1")}

TwoFilters == {<< >>, [industries |-> <<"62.1">>]}

\* The snapshots of the two calls are chosen independently.
InitTwo ==
    /\ EngineIdle(FilterMinCfg, FilterCostCfg, MmbDefaults)
    /\ ChatIdle
    /\ BotIdle
    /\ \E r1 \in SeqUpTo(TwoRows, MaxRecords),
          r2 \in SeqUpTo(TwoRows, MaxRecords),
          f1 \in TwoFilters, f2 \in TwoFilters :
           invocations = <<Call(<<r1>>, f1, NoParams, "Korobka"),
                           Call(<<r2>>, f2, NoParams, "Korobka")>>

SpecTwo == InitTwo /\ [][NextTwo]_vars

\* What a call at position pc0 holds when it runs alone on the arguments
\* of c.
RECURSIVE Alone(_, _)
Alone(c, pc0) ==
    LET start == Call(c.files, c.filters, c.segment_params, c.product_type)
    IN  CASE pc0 = "start" -> start
          [] pc0 = "loaded" -> CallLoad(Alone(c, "start"))
          [] pc0 = "filtered" -> CallFilter(Alone(c, "loaded"))
          [] pc0 \in {"aggregated", "raised"} ->
                 CallStep1(Alone(c, "filtered"))
          [] pc0 = "done" -> CallStep2(Alone(c, "aggregated"))

\* The arguments of a call.
Arguments(c) == <<c.files, c.filters, c.segment_params, c.product_type>>

\* Every call holds, at each position, what it would hold running alone.
EachAsAlone ==
    \A i \in DOMAIN invocations :
        invocations[i] = Alone(invocations[i], invocations[i].pc)

\* No step changes the arguments of a call or the reference tables,
\* filtering leaves the loaded records as they were, aggregation the
\* filtered records and evaluation the segment metrics.
InputsKept ==
    /\ MIN_CLIENTS_CONFIG' = MIN_CLIENTS_CONFIG
    /\ COST_PRICE_CONFIG' = COST_PRICE_CONFIG
    /\ SEGMENT_DEFAULTS' = SEGMENT_DEFAULTS
    /\ \A i \in DOMAIN invocations :
           /\ Arguments(invocations'[i]) = Arguments(invocations[i])
           /\ invocations[i].pc # "start"
                  => invocations'[i].all_data = invocations[i].all_data
           /\ invocations[i].pc \notin {"start", "loaded"}
                  => invocations'[i].filtered_data
                         = invocations[i].filtered_data
           /\ invocations[i].pc \in {"aggregated", "done"}
                  => invocations'[i].segment_metrics
                         = invocations[i].segment_metrics

\* C22: two pipeline calls on independent snapshots, interleaved in any
\* order, each hold at every position what they would hold when run
\* alone, and no step modifies the input records, the criteria, the
\* reference tables or the segment metrics it was given.
C22_CallsAreIndependent == [](EachAsAlone) /\ [][InputsKept]_vars

\* One call has returned a "da" row while the other, on other records and
\* criteria, is between filtering and aggregation.
C22_Witness ==
    /\ invocations # << >>
    /\ invocations[1].pc = "done"
    /\ Len(invocations[1].potential_results) = 1
    /\ invocations[1].potential_results[1].Reshenie = "da"
    /\ invocations[2].pc = "filtered"
    /\ invocations[2].filters # invocations[1].filters
    /\ invocations[2].filtered_data # invocations[1].filtered_data

(***************************************************************************)
(* The chat front end (chat_interface.py, potential_agent.py).  A value    *)
(* parsed from a model answer is a record [t, n, s, items]: t is its JSON  *)
(* type, n its number (or 1/0 for true/false), s its text, items its list  *)
(* of strings.  "big" is an integer literal beyond the float range.        *)
(***************************************************************************)
JValue(t, n, s, items) == [t |-> t, n |-> n, s |-> s, items |-> items]
JNull == JValue("null", 0, "", << >>)
JNum(n) == JValue("num", n, "", << >>)
JStr(s) == JValue("str", 0, s, << >>)
JBool(b) == JValue("bool", IF b THEN 1 ELSE 0, "", << >>)
JList(items) == JValue("list", 0, "", items)
JBig == JValue("big", 0, "", << >>)

\* Python truthiness of a parsed value.
Truthy(v) ==
    CASE v.t = "null" -> FALSE
      [] v.t \in {"num", "bool"} -> v.n # 0
      [] v.t = "str" -> v.s # ""
      [] v.t = "list" -> v.items # << >>
      [] v.t = "big" -> TRUE

\* Texts that float() accepts, with their values.
FloatLits == {<<"10", 10>>, <<"500000", 500000>>}

\* float(val): a number, or the exception it raises.
float(v) ==
    CASE v.t \in {"num", "bool"} -> [raises |-> "", value |-> v.n]
      [] v.t = "big" -> [raises |-> "OverflowError", value |-> 0]
      [] v.t = "str" ->
             IF \E l \in FloatLits : l[1] = v.s
             THEN [raises |-> "",
                   value |-> (CHOOSE l \in FloatLits : l[1] = v.s)[2]]
             ELSE [raises |-> "ValueError", value |-> 0]
      [] OTHER -> [raises |-> "TypeError", value |-> 0]

\* The outcome of a method on a session state: the state it leaves and the
\* exception that escapes it ("" when it returns).
Outcome(st, raises) == [st |-> st, raises |-> raises]

\* The names update_params_from_message updates, in its order.
ParamNames == <<"avg_amount_mmb", "avg_amount_other", "k", "own_share">>

\* state.get(name) is truthy: set and not zero.
IsSet(st, name) == st[name] # None /\ st[name][1] # 0

\* _upd(name): a null is skipped, TypeError and ValueError of float() are
\* swallowed, any other exception escapes.
Upd(st, data, name) ==
    LET val == data[name]
        f == float(val)
    IN  IF val.t = "null" THEN Outcome(st, "")
        ELSE IF f.raises \in {"TypeError", "ValueError"} THEN Outcome(st, "")
        ELSE IF f.raises # "" THEN Outcome(st, f.raises)
        ELSE Outcome([st EXCEPT ![name] = Some(f.value)], "")

\* The four _upd calls in order, stopping at an exception.
RECURSIVE UpdAll(_, _, _)
UpdAll(st, data, names) ==
    IF names = << >> THEN Outcome(st, "")
    ELSE LET o == Upd(st, data, Head(names))
         IN  IF o.raises # "" THEN o ELSE UpdAll(o.st, data, Tail(names))

\* The helper at the end: a single known average check is copied to the
\* other one.
MirrorChecks(st) ==
    LET s1 == IF IsSet(st, "avg_amount_mmb") /\ ~IsSet(st, "avg_amount_other")
              THEN [st EXCEPT !.avg_amount_other = st.avg_amount_mmb]
              ELSE st
    IN  IF IsSet(s1, "avg_amount_other") /\ ~IsSet(s1, "avg_amount_mmb")
        THEN [s1 EXCEPT !.avg_amount_mmb = s1.avg_amount_other]
        ELSE s1

\* update_params_from_message.  ans.top is the type of the parsed answer:
\* "object", "list" (data.get raises AttributeError) or "none" (no JSON:
\* data is {}, whose every key is absent).
update_params_from_message(st, ans) ==
    IF ans.top = "list" THEN Outcome(st, "AttributeError")
    ELSE LET data == IF ans.top = "object" THEN ans
                     ELSE [n \in {ParamNames[i] : i \in 1..4} |-> JNull]
             o == UpdAll(st, data, ParamNames)
         IN  IF o.raises # "" THEN o ELSE Outcome(MirrorChecks(o.st), "")

(***************************************************************************)
(* update_filters_from_message.  The answer to one prompt is a record      *)
(* [top, has, value]: top is the type of the parsed answer ("object",      *)
(* "list", or "none" when no JSON was found and data is {}), has says      *)
(* whether the object holds the prompt's key and value is the key's value. *)
(***************************************************************************)
Answer(top, has, value) == [top |-> top, has |-> has, value |-> value]
NoAnswer == Answer("none", FALSE, JNull)
Keyed(value) == Answer("object", TRUE, value)

\* data.get(key, default) on the parsed answer.
DataGet(a, default) ==
    CASE a.top = "list" -> [raises |-> "AttributeError", value |-> default]
      [] a.top = "none" -> [raises |-> "", value |-> default]
      [] a.top = "object" ->
             [raises |-> "", value |-> IF a.has THEN a.value ELSE default]

\* The same call inside try/except Exception: the default on any exception.
DataGetOrDefault(a, default) ==
    IF DataGet(a, default).raises # "" THEN default
    ELSE DataGet(a, default).value

\* Code texts with what lines 316-330 make of them ("" when skipped).
CodeLits == {<<"62.1", "62.1">>, <<"62", "62.0">>, <<"62.12", "62.1">>,
             <<"47.8", "47.8">>, <<"abc", "">>, <<"6", "6.0">>,
             <<"2", "2.0">>, <<"1", "1.0">>, <<".", "">>}

NormCode(code) ==
    IF \E l \in CodeLits : l[1] = code
    THEN (CHOOSE l \in CodeLits : l[1] = code)[2]
    ELSE ""

\* The characters of the texts that are iterated as a string.
CharLits == {<<"62.1", <<"6", "2", ".", "1">>>>}

\* What "for code in industries_raw" iterates over, or the TypeError of a
\* value that is not iterable.
IterOf(v) ==
    CASE v.t = "list" -> [raises |-> "", items |-> v.items]
      [] v.t = "str" /\ (\E l \in CharLits : l[1] = v.s) ->
             [raises |-> "",
              items |-> (CHOOSE l \in CharLits : l[1] = v.s)[2]]
      [] v.t = "str" -> [raises |-> "", items |-> << >>]
      [] OTHER -> [raises |-> "TypeError", items |-> << >>]

\* list(set(xs)): the distinct elements in any order.
ListOfSet(S) ==
    {f \in [1..Cardinality(S) -> S] : \A x \in S : \E i \in DOMAIN f : f[i] = x}

\* d[k] = v on a dict.
Put(d, k, v) == [x \in DOMAIN d \cup {k} |-> IF x = k THEN v ELSE d[x]]

SetFilter(st, key, v) == [st EXCEPT !.filters = Put(st.filters, key, v)]

\* Lines 301-335: industries.
IndustriesStep(st, a) ==
    LET raw == DataGetOrDefault(a, JList(<< >>))
        it == IterOf(raw)
        codes == {NormCode(c) : c \in Range(it.items)} \ {""}
    IN  IF it.raises # "" THEN {Outcome(st, it.raises)}
        ELSE IF codes = {} THEN {Outcome(st, "")}
        ELSE {Outcome(SetFilter(st, "industries", JList(l)), "") :
                  l \in ListOfSet(codes)}

\* Lines 371-382 and 489-501: revenue and tb are stored as returned when
\* truthy.
RawStep(st, key, a) ==
    LET raw == DataGetOrDefault(a, JList(<< >>))
    IN  IF Truthy(raw) THEN {Outcome(SetFilter(st, key, raw), "")}
        ELSE {Outcome(st, "")}

\* Lines 426-451: staff keeps the non-empty stripped strings of a list.
StaffStep(st, a) ==
    LET raw == DataGetOrDefault(a, JList(<< >>))
        cats == IF raw.t = "list"
                THEN {strip(c) : c \in Range(raw.items)} \ {""}
                ELSE {}
    IN  IF cats = {} THEN {Outcome(st, "")}
        ELSE {Outcome(SetFilter(st, "staff", JList(l)), "") :
                  l \in ListOfSet(cats)}

\* Lines 527-546: product_type.  A list value is unhashable: the set
\* membership test raises TypeError.
ProductStep(st, a) ==
    LET v == IF a.top = "object" /\ a.has THEN a.value ELSE JNull
    IN  IF v.t = "list" THEN {Outcome(st, "TypeError")}
        ELSE IF v.t = "str" /\ v.s \in {"Korobka", "Kastom"}
        THEN {Outcome([st EXCEPT !.product_type = v.s], "")}
        ELSE {Outcome(st, "")}

\* Lines 583-604: segment_params.  The answer is a record [top, mmb_dolya,
\* mmb_kpr, other_dolya, other_kpr]: top as above ("none" also stands for
\* an empty object) and each number the result of data.get(key, default).
SegParamsStep(st, a) ==
    LET fs == <<float(a.mmb_dolya), float(a.mmb_kpr), float(a.other_dolya),
                float(a.other_kpr)>>
        bad == {i \in 1..4 : fs[i].raises # ""}
        first == CHOOSE i \in bad : \A j \in bad : i <= j
        other == [dolya |-> fs[3].value, kpr |-> fs[4].value]
        table == [seg \in {"MMB", "KSB", "SKM", "RGS", "KeyClients"} |->
                     CASE seg = "MMB" ->
                              [dolya |-> fs[1].value, kpr |-> fs[2].value]
                       [] seg = "KeyClients" ->
                              [dolya |-> other.dolya + 5,
                               kpr |-> other.kpr + 10]
                       [] OTHER -> other]
    IN  IF a.top = "none" THEN {Outcome(st, "")}
        ELSE IF a.top = "list" THEN {Outcome(st, "AttributeError")}
        ELSE IF bad # {} THEN {Outcome(st, fs[first].raises)}
        ELSE {Outcome([st EXCEPT !.segment_params = table], "")}

\* The outcomes of step F on the states the outcomes outs returned with.
Then(outs, F(_)) ==
    UNION {IF o.raises # "" THEN {o} ELSE F(o.st) : o \in outs}

\* update_filters_from_message: the possible outcomes (the order of a
\* de-duplicated list is not determined).
update_filters_from_message(st, ans) ==
    LET Revenue(s1) == RawStep(s1, "revenue", ans.revenue)
        Staff(s1) == StaffStep(s1, ans.staff)
        Tb(s1) == RawStep(s1, "tb", ans.tb)
        Product(s1) == ProductStep(s1, ans.product_type)
        SegParams(s1) == SegParamsStep(s1, ans.segment_params)
    IN  Then(Then(Then(Then(Then(IndustriesStep(st, ans.industries),
                                   Revenue), Staff), Tb), Product), SegParams)

(***************************************************************************)
(* Sessions of the chat front end (chat_interface.py).  A session state is *)
(* a dict object in heap; _SESSIONS maps a user id to the place of the     *)
(* user's dict.  The lists and dicts inside a state dict are created by    *)
(* the literals of _make_initial_state and of the reset after a            *)
(* calculation and are reachable through their state dict only, so they    *)
(* are part of its value.                                                  *)
(***************************************************************************)
_make_initial_state ==
    [messages |-> << >>, filters |-> << >>, segment_params |-> << >>,
     product_type |-> "Korobka", ready_to_calculate |-> FALSE,
     last_result |-> None, avg_amount_mmb |-> None,
     avg_amount_other |-> None, k |-> None, own_share |-> None]

\* A variant of _get_state that hands a new user the dict object of the
\* first session.
GetSharedState(sessions, hp, user_id) ==
    IF user_id \in DOMAIN sessions
    THEN [sessions |-> sessions, heap |-> hp, ref |-> sessions[user_id]]
    ELSE IF hp # << >>
    THEN [sessions |-> Put(sessions, user_id, 1), heap |-> hp, ref |-> 1]
    ELSE [sessions |-> Put(sessions, user_id, 1),
          heap |-> <<_make_initial_state>>, ref |-> 1]

\* _get_state: the user's dict, created on the first call for the user.
_get_state(sessions, hp, user_id) ==
    IF user_id \in DOMAIN sessions
    THEN [sessions |-> sessions, heap |-> hp, ref |-> sessions[user_id]]
    ELSE [sessions |-> Put(sessions, user_id, Len(hp) + 1),
          heap |-> Append(hp, _make_initial_state),
          ref |-> Len(hp) + 1]

\* Lowered texts that contain one of the triggers of
\* is_show_filters_request.
ShowFiltersTexts == {"pokazhi filtry", "pokazhi filtry i poschitai"}

is_show_filters_request(text) == lower(text) \in ShowFiltersTexts

\* Lowered texts that contain one of the triggers of is_calculation_request.
CalculationTexts == {"poschitai", "zapusti raschet",
                     "pokazhi filtry i poschitai"}

is_calculation_request(text) == lower(text) \in CalculationTexts

\* The parameters of calculate_potential_full_pipeline and those of them
\* without a default.
PipelineParameters ==
    {"data_directory", "filters", "segment_params", "product_type"}
PipelineRequired == {"data_directory", "filters", "segment_params"}

\* The keyword arguments run_full_calculation calls the pipeline with.
AgentKeywords == {"data_dir", "filters", "avg_amount_mmb", "avg_amount_other",
                  "k", "own_share", "product_type"}

\* Binding keyword arguments to the parameters of a function: an unknown
\* keyword or a missing required parameter is a TypeError.
BindKeywords(keywords, parameters, required) ==
    IF keywords \subseteq parameters /\ required \subseteq keywords
    THEN "" ELSE "TypeError"

\* run_full_calculation: the state is only read; the call of the pipeline
\* is bound first.  The result, when the call binds, is the pipeline's.
run_full_calculation(st) ==
    LET raises == BindKeywords(AgentKeywords, PipelineParameters,
                               PipelineRequired)
    IN  [raises |-> raises,
         result |-> IF raises = "" THEN Some("result") ELSE None]

HumanMessage(content) == [role |-> "human", content |-> content]
AIMessage(content) == [role |-> "ai", content |-> content]

AddMessage(st, m) == [st EXCEPT !.messages = Append(@, m)]

\* What a call of chat_with_agent did: the state it left, the exception
\* that escaped, the reply it returned and the methods of the agent it
\* called.
Handled(st, raises, reply, calls) ==
    [st |-> st, raises |-> raises, reply |-> reply, calls |-> calls]

\* Lines 80-94: the calculation request.
CalculationBranch(st) ==
    LET run == run_full_calculation(st)
        s1 == [st EXCEPT !.last_result = run.result]
        s2 == AddMessage(s1, AIMessage("summary"))
        s3 == [s2 EXCEPT !.filters = << >>, !.segment_params = << >>,
                         !.product_type = "Korobka",
                         !.ready_to_calculate = FALSE]
    IN  IF run.raises # ""
        THEN Handled(st, run.raises, "", <<"run_full_calculation">>)
        ELSE Handled(s3, "", "summary", <<"run_full_calculation">>)

\* Lines 97-111: the ordinary message.
OrdinaryBranch(st, a) ==
    LET Reply(s1) == [AddMessage(s1, AIMessage("filters and comment"))
                          EXCEPT !.ready_to_calculate = FALSE]
        both == <<"update_filters_from_message",
                  "update_params_from_message">>
    IN  UNION {IF f.raises # ""
               THEN {Handled(f.st, f.raises, "",
                             <<"update_filters_from_message">>)}
               ELSE LET p == update_params_from_message(f.st, a.params)
                    IN  IF p.raises # ""
                        THEN {Handled(p.st, p.raises, "", both)}
                        ELSE {Handled(Reply(p.st), "",
                                      "filters and comment", both)} :
               f \in update_filters_from_message(st, a.filters)}

\* chat_with_agent on the user's state dict: the possible outcomes.
chat_with_agent(st, user_text, a) ==
    LET text == strip(user_text)
        s1 == AddMessage(st, HumanMessage(text))
    IN  IF text = "" THEN {Handled(st, "", "prompt", << >>)}
        ELSE IF is_show_filters_request(text)
        THEN {Handled([AddMessage(s1, AIMessage("filters"))
                           EXCEPT !.ready_to_calculate = FALSE],
                      "", "filters", << >>)}
        ELSE IF is_calculation_request(text)
        THEN {CalculationBranch(s1)}
        ELSE OrdinaryBranch(s1, a)

\* One call of chat_with_agent, by one of the users, with one of the texts
\* and one of the answers of the language model.
ChatWithAgent ==
    \E user_id \in chat_env.users, user_text \in chat_env.texts,
       a \in chat_env.answers :
        LET g == _get_state(_SESSIONS, heap, user_id)
        IN  /\ Len(g.heap[g.ref].messages) + 2 <= MaxMessages
            /\ \E r \in chat_with_agent(g.heap[g.ref], user_text, a) :
                   /\ heap' = [g.heap EXCEPT ![g.ref] = r.st]
                   /\ chat_last' = [user_id |-> user_id,
                                    user_text |-> user_text,
                                    raises |-> r.raises, reply |-> r.reply,
                                    calls |-> r.calls, answer |-> a]
            /\ _SESSIONS' = g.sessions
            /\ UNCHANGED <<engineVars, invocations, chat_env, botVars>>

NextChat == ChatWithAgent

\* The engine has not been called and no call of the front end has been
\* made: the users, texts and answers are env.
ChatStart(env) ==
    /\ EngineIdle(FilterMinCfg, FilterCostCfg, MmbDefaults)
    /\ invocations = << >>
    /\ _SESSIONS = << >>
    /\ heap = << >>
    /\ chat_env = env
    /\ chat_last = << >>
    /\ BotIdle

\* The answers to the prompts of update_filters_from_message.
FilterAnswers(ind, rev, stf, terr, ptype, segpar) ==
    [industries |-> ind, revenue |-> rev, staff |-> stf, tb |-> terr,
     product_type |-> ptype, segment_params |-> segpar]

\* The answer to the prompt of update_params_from_message.
ParamAnswer(top, mmb, other, kk, share) ==
    [top |-> top, avg_amount_mmb |-> mmb, avg_amount_other |-> other,
     k |-> kk, own_share |-> share]

NoSegParams ==
    [top |-> "none", mmb_dolya |-> JNull, mmb_kpr |-> JNull,
     other_dolya |-> JNull, other_kpr |-> JNull]

NoFilterAnswers ==
    FilterAnswers(NoAnswer, NoAnswer, NoAnswer, NoAnswer, NoAnswer,
                  NoSegParams)

NoParamAnswer == ParamAnswer("none", JNull, JNull, JNull, JNull)

\* Two users; texts of every kind; answers that set a filter, a product
\* type, segment parameters and the four parameters.
TwoUserEnv ==
    [users |-> {1, 2},
     texts |-> {" ", "Poschitai", "pokazhi filtry", "IT, chek 500000"},
     answers |->
         {[filters |-> NoFilterAnswers, params |-> NoParamAnswer],
          [filters |-> FilterAnswers(Keyed(JList(<<"62.1">>)), NoAnswer,
                                     NoAnswer, Keyed(JList(<<"SIB">>)),
                                     Keyed(JStr("Kastom")),
                                     [top |-> "object", mmb_dolya |-> JNum(30),
                                      mmb_kpr |-> JNum(10),
                                      other_dolya |-> JNum(20),
                                      other_kpr |-> JNum(15)]),
           params |-> ParamAnswer("object", JNum(500000), JNull, JNum(15),
                                  JNum(10))]}]

InitChat == ChatStart(TwoUserEnv)

SpecChat == InitChat /\ [][NextChat]_vars

\* The state dict of a user before a step and after it.
SessionBefore(user_id) == _get_state(_SESSIONS, heap, user_id).heap[
                              _get_state(_SESSIONS, heap, user_id).ref]
SessionAfter(user_id) == heap'[_SESSIONS'[user_id]]

\* C23: a call of chat_with_agent that handles a calculation request
\* returns the result summary and appends it as the reply, leaves the
\* session with filters = {}, segment_params = {}, product_type = "Korobka"
\* and ready_to_calculate = False, and keeps avg_amount_mmb,
\* avg_amount_other, k and own_share as they were before the request.
C23_CalculationRepliesAndResets ==
    [][chat_last'.calls = <<"run_full_calculation">> =>
           LET old == SessionBefore(chat_last'.user_id)
               new == SessionAfter(chat_last'.user_id)
           IN  /\ chat_last'.raises = ""
               /\ chat_last'.reply = "summary"
               /\ new.messages # << >>
               /\ new.messages[Len(new.messages)] = AIMessage("summary")
               /\ new.filters = << >>
               /\ new.segment_params = << >>
               /\ new.product_type = "Korobka"
               /\ new.ready_to_calculate = FALSE
               /\ new.avg_amount_mmb = old.avg_amount_mmb
               /\ new.avg_amount_other = old.avg_amount_other
               /\ new.k = old.k
               /\ new.own_share = old.own_share]_vars

\* C28: a call of chat_with_agent for one user leaves the session of every
\* other user as it was (filters, parameters, message history, last
\* result), the state it leaves for its own user is an outcome of the call
\* on that user's state alone, a user seen for the first time starts from
\* the initial state, and no two users have the same state dict.
OthersUnchanged ==
    \A b \in DOMAIN _SESSIONS :
        b # chat_last'.user_id =>
            /\ b \in DOMAIN _SESSIONS'
            /\ _SESSIONS'[b] = _SESSIONS[b]
            /\ heap'[_SESSIONS'[b]] = heap[_SESSIONS[b]]

OwnFromOwn ==
    LET a == chat_last'.user_id
        from == IF a \in DOMAIN _SESSIONS THEN heap[_SESSIONS[a]]
                ELSE _make_initial_state
    IN  /\ a \in DOMAIN _SESSIONS'
        /\ \E r \in chat_with_agent(from, chat_last'.user_text,
                                    chat_last'.answer) :
               /\ SessionAfter(a) = r.st
               /\ chat_last'.raises = r.raises
               /\ chat_last'.reply = r.reply

NoSharedState ==
    \A a, b \in DOMAIN _SESSIONS : a # b => _SESSIONS[a] # _SESSIONS[b]

C28_SessionsAreIsolated ==
    [](NoSharedState) /\ [][OthersUnchanged /\ OwnFromOwn]_vars

\* Both users have a session; the first has filters and parameters set and
\* the second, whose call came last, has neither.
C28_Witness ==
    /\ DOMAIN _SESSIONS = {1, 2}
    /\ chat_last.user_id = 2
    /\ chat_last.calls # << >>
    /\ heap[_SESSIONS[1]].filters # << >>
    /\ heap[_SESSIONS[1]].avg_amount_mmb = Some(500000)
    /\ Len(heap[_SESSIONS[1]].messages) = 2
    /\ heap[_SESSIONS[2]].filters = << >>
    /\ heap[_SESSIONS[2]].avg_amount_mmb = None
    /\ Len(heap[_SESSIONS[2]].messages) >= 2

(***************************************************************************)
(* One user whose messages are ordinary ones; the language model answers   *)
(* the parameter prompt with numbers, nulls, texts, a list, an integer     *)
(* beyond the float range, a list instead of an object, or no JSON.        *)
(***************************************************************************)
ParamAnswers ==
    {ParamAnswer("object", mmb, other, kk, JNull) :
         mmb \in {JNull, JNum(500000), JNum(0), JStr("abc")},
         other \in {JNull, JNum(800000), JBig, JList(<<"1">>)},
         kk \in {JNull, JNum(15), JStr("10")}}
    \cup {NoParamAnswer, ParamAnswer("list", JNull, JNull, JNull, JNull)}

ParamsEnv ==
    [users |-> {1},
     texts |-> {"chek 500000"},
     answers |-> {[filters |-> NoFilterAnswers, params |-> pa] :
                      pa \in ParamAnswers}]

InitParams == ChatStart(ParamsEnv)

SpecParams == InitParams /\ [][NextChat]_vars

\* A value float() refuses with TypeError or ValueError.
NotNumeric(v) == float(v).raises \in {"TypeError", "ValueError"}

\* C24: after every call of update_params_from_message avg_amount_mmb is
\* set (non-zero) exactly if avg_amount_other is; a single known average
\* check is copied to the other; a parameter returned as null or as a
\* non-numeric value keeps its stored value (the averages unless copied).
C24_ChecksSetTogether ==
    [][("update_params_from_message" \in Range(chat_last'.calls)) =>
           LET old == SessionBefore(chat_last'.user_id)
               new == SessionAfter(chat_last'.user_id)
               ans == chat_last'.answer.params
               Kept(name) ==
                   (ans.top # "object" \/ ans[name].t = "null"
                        \/ NotNumeric(ans[name]))
                       => new[name] = old[name]
           IN  /\ IsSet(new, "avg_amount_mmb")
                      <=> IsSet(new, "avg_amount_other")
               /\ Kept("k")
               /\ Kept("own_share")
               /\ Kept("avg_amount_mmb")
                      \/ new.avg_amount_mmb = new.avg_amount_other
               /\ Kept("avg_amount_other")
                      \/ new.avg_amount_other = new.avg_amount_mmb]_vars

(***************************************************************************)
(* One user who sends ordinary messages and show-filters requests; the     *)
(* language model answers the filter prompts with lists (with duplicates   *)
(* and padding), empty lists, a bare text for the revenue range, null for  *)
(* the industries, an unknown product type, or no JSON.                    *)
(***************************************************************************)
FilterAnswerSet ==
    {NoFilterAnswers,
     FilterAnswers(Keyed(JList(<<"62.1", "62.12", "47.8">>)),
                   Keyed(JList(<<"1-10 mln">>)), Keyed(JList(<<" 1 ", " ">>)),
                   Keyed(JList(<<"SIB">>)), Keyed(JStr("Kastom")),
                   NoSegParams),
     FilterAnswers(Keyed(JList(<< >>)), Keyed(JList(<< >>)),
                   Keyed(JList(<< >>)), Keyed(JList(<< >>)),
                   Keyed(JStr("Drugoi")), NoSegParams),
     FilterAnswers(Keyed(JList(<<"62">>)), Keyed(JStr("1-10 mln")),
                   NoAnswer, NoAnswer, Keyed(JStr("Korobka")), NoSegParams),
     FilterAnswers(Keyed(JNull), NoAnswer, NoAnswer, NoAnswer, NoAnswer,
                   NoSegParams),
     FilterAnswers(Answer("list", FALSE, JNull), NoAnswer, NoAnswer,
                   Keyed(JList(<<"UB">>)), Keyed(JList(<<"Kastom">>)),
                   NoSegParams)}

FiltersEnv ==
    [users |-> {1},
     texts |-> {"otrasl IT", "vyruchka 5 mln", "pokazhi filtry"},
     answers |-> {[filters |-> fa, params |-> NoParamAnswer] :
                      fa \in FilterAnswerSet}]

InitFilters == ChatStart(FiltersEnv)

SpecFilters == InitFilters /\ [][NextChat]_vars

\* The four list filters.
ListFilters == {"industries", "revenue", "staff", "tb"}

\* C29: an ordinary message never removes or empties a filter that is set;
\* it overwrites a list filter only with a non-empty list and the product
\* type only with one of the two allowed values; a show-filters request
\* changes no filter and no parameter.
C29_FiltersOnlyGrow ==
    [][LET old == SessionBefore(chat_last'.user_id)
           new == SessionAfter(chat_last'.user_id)
       IN  /\ ("update_filters_from_message" \in Range(chat_last'.calls)) =>
                  /\ \A key \in ListFilters :
                         /\ key \in DOMAIN old.filters
                                => key \in DOMAIN new.filters
                         /\ (key \in DOMAIN new.filters /\
                             (key \notin DOMAIN old.filters
                                  \/ new.filters[key] # old.filters[key]))
                                => /\ new.filters[key].t = "list"
                                   /\ new.filters[key].items # << >>
                  /\ new.product_type # old.product_type
                         => new.product_type \in {"Korobka", "Kastom"}
           /\ chat_last'.reply = "filters" =>
                  /\ new.filters = old.filters
                  /\ new.segment_params = old.segment_params
                  /\ new.product_type = old.product_type
                  /\ \A i \in 1..4 : new[ParamNames[i]] = old[ParamNames[i]]
      ]_vars

(***************************************************************************)
(* Presentation of a pipeline result: format_calculation_results           *)
(* (results_formatter.py) and summarize_result_for_user                    *)
(* (potential_agent.py).  A reply is modelled by its kind, the exception   *)
(* that escapes and the decision rows it reports.                          *)
(***************************************************************************)
\* d.get(key, default) on a dict.
DictGet(d, key, default) == IF key \in DOMAIN d THEN d[key] ELSE default

\* The dict calculate_potential_full_pipeline returns (lines 431-438).
pipeline_result ==
    [segment_metrics |-> segment_metrics,
     potential_results |-> potential_results,
     filtered_records_count |-> Len(filtered_data)]

\* What a reply shows of a decision row.
Shown(row) ==
    [Kanal |-> row.Kanal, Segment |-> row.Segment, Reshenie |-> row.Reshenie]

Reply(kind, raises, rows) == [kind |-> kind, raises |-> raises, rows |-> rows]

\* The keys format_calculation_results reads of every row by subscript.
FormatterRowKeys ==
    {"Segment", "Kanal", "Reshenie", "amount_ab", "market", "clients",
     "non_clients"}

format_calculation_results(results) ==
    LET channel_results == DictGet(results, "channel_results", << >>)
    IN  IF DictGet(results, "filtered_records_count", 0) = 0
        THEN Reply("no data", "", {})
        ELSE IF channel_results = << >>
        THEN Reply("not calculated", "", {})
        ELSE IF \E i \in DOMAIN channel_results :
                    ~(FormatterRowKeys \subseteq DOMAIN channel_results[i])
        THEN Reply("", "KeyError", {})
        ELSE Reply("report", "",
                   {Shown(channel_results[i]) : i \in DOMAIN channel_results})

summarize_result_for_user(result) ==
    LET rows == DictGet(result, "channel_results", << >>)
    IN  Reply("summary", "", {Shown(rows[i]) : i \in DOMAIN rows})

\* A front end that holds the result of the finished pipeline builds its
\* reply.
Present ==
    /\ pc = "done"
    /\ presented = << >>
    /\ presented' =
           [telegram |-> format_calculation_results(pipeline_result),
            chat |-> summarize_result_for_user(pipeline_result)]
    /\ UNCHANGED <<engineVars, invocations, chatVars, user_data, sending>>

NextPresent == Next \/ Present

SpecPresent == InitChain /\ [][NextPresent]_vars

\* C27: a reply built from a pipeline result with a positive count of
\* filtered records and at least one decision row reports those decision
\* rows, in both front ends, and a result with a "da" row is never answered
\* with the 'nothing calculated' message.
C27_RepliesReportTheRows ==
    (presented # << >> /\ Len(filtered_data) > 0 /\ potential_results # << >>)
        => /\ \A i \in DOMAIN potential_results :
                  /\ Shown(potential_results[i]) \in presented.telegram.rows
                  /\ Shown(potential_results[i]) \in presented.chat.rows
           /\ (\E i \in DOMAIN potential_results :
                   potential_results[i].Reshenie = "da")
                  => presented.telegram.kind # "not calculated"

(***************************************************************************)
(* safe_send_message (telegram_bot.py).  sending holds the number of parts *)
(* the text was split into (0 for an empty text), max_retries, the part    *)
(* and the attempt the loops are at, and per part the outcomes of its send *)
(* attempts and whether the fallback notice was attempted.                 *)
(***************************************************************************)
SendOutcomes == {"ok", "RetryAfter", "TimedOut", "NetworkError", "Exception"}

\* The loops move on to the next part, or the function returns.
NextPart(snd) ==
    IF snd.part < snd.parts
    THEN [snd EXCEPT !.part = @ + 1, !.attempt = 0]
    ELSE [snd EXCEPT !.pc = "returned"]

\* The next iteration of "for attempt in range(max_retries)".
NextAttempt(snd) ==
    IF snd.attempt + 1 < snd.max_retries
    THEN [snd EXCEPT !.attempt = @ + 1]
    ELSE NextPart(snd)

WithNotice(snd) == [snd EXCEPT !.notice[snd.part] = TRUE]

\* One pass of the try statement with the given outcome of reply_text.
Attempt(snd, outcome) ==
    LET s1 == [snd EXCEPT !.attempts[snd.part] = Append(@, outcome)]
        last == snd.attempt = snd.max_retries - 1
    IN  CASE outcome = "ok" -> NextPart(s1)
          [] outcome = "RetryAfter" -> NextAttempt(s1)
          [] outcome \in {"TimedOut", "NetworkError"} ->
                 IF last THEN NextAttempt(WithNotice(s1))
                 ELSE NextAttempt(s1)
          [] OTHER ->
                 IF last THEN NextPart(WithNotice(s1)) ELSE NextPart(s1)

\* Lines 55-83: an empty text returns at once, another is split.
SendStart ==
    /\ sending.pc = "called"
    /\ sending' = IF sending.parts = 0
                  THEN [sending EXCEPT !.pc = "returned"]
                  ELSE [sending EXCEPT !.pc = "sending", !.part = 1]
    /\ UNCHANGED <<engineVars, invocations, chatVars, presented, user_data>>

\* Lines 86-134: one send attempt of the current part.
SendAttempt ==
    /\ sending.pc = "sending"
    /\ \E outcome \in SendOutcomes : sending' = Attempt(sending, outcome)
    /\ UNCHANGED <<engineVars, invocations, chatVars, presented, user_data>>

NextSend == SendStart \/ SendAttempt

InitSend ==
    /\ EngineIdle(FilterMinCfg, FilterCostCfg, MmbDefaults)
    /\ invocations = << >>
    /\ ChatIdle
    /\ presented = << >>
    /\ user_data = << >>
    /\ \E n \in 0..MaxParts, m \in 1..MaxRetries :
           sending = [pc |-> "called", parts |-> n, max_retries |-> m,
                      part |-> 0, attempt |-> 0,
                      attempts |-> [i \in 1..n |-> << >>],
                      notice |-> [i \in 1..n |-> FALSE]]

SpecSend == InitSend /\ [][NextSend]_vars

\* C30: for every sequence of send outcomes, safe_send_message makes at
\* most max_retries attempts per part and then moves on, and once it has
\* returned every part was delivered by one of its attempts or, its
\* attempts used up, the fallback notice was attempted for it.
C30_NoPartDroppedSilently ==
    /\ \A i \in 1..sending.parts :
           Len(sending.attempts[i]) <= sending.max_retries
    /\ sending.pc = "returned" =>
           \A i \in 1..sending.parts :
               \/ "ok" \in Range(sending.attempts[i])
               \/ sending.notice[i]

(***************************************************************************)
(* The dialog of the Telegram bot (telegram_bot.py) with one user.         *)
(* user_data holds ctx, the keys of context.user_data (an absent key is    *)
(* its .get default); the user turns in the dialog_history of the user's   *)
(* CompanyInfoAgent and CalculationParamsAgent; epoch, the number of       *)
(* /start and /reset commands so far; company_answer, the text that        *)
(* confirmed the company info since then; and last, the last handler call  *)
(* with its text, the branch it took and the arguments of the calculation  *)
(* it invoked, if any.  Company info and parameters carry the epoch in     *)
(* which the agent returned them.                                          *)
(***************************************************************************)
CompanyInfo(epoch, kind) == [epoch |-> epoch, kind |-> kind]
EmptyInfo == CompanyInfo(0, "empty")
CalcParams(epoch, complete) == [epoch |-> epoch, complete |-> complete]
EmptyParams == CalcParams(0, FALSE)

LastCall(handler, text, stage, calculated) ==
    [handler |-> handler, text |-> text, stage |-> stage,
     calculated |-> calculated]

\* context.user_data = {} and no agents: the bot before the first update.
FreshBot ==
    [ctx |-> [dialog_started |-> FALSE, company_info_collected |-> FALSE,
              calculation_params_collected |-> FALSE, no_filters |-> FALSE,
              waiting_company_confirmation |-> FALSE,
              waiting_params_confirmation |-> FALSE,
              calc_dialog_started |-> FALSE, company_info |-> EmptyInfo,
              okved_codes |-> << >>, calculation_params |-> EmptyParams],
     company_history |-> 0, params_history |-> 0, epoch |-> 0,
     company_answer |-> "", last |-> LastCall("", "", "", None)]

\* reset_dialog of both agents of the user.
ResetAgents(st) == [st EXCEPT !.company_history = 0, !.params_history = 0]

\* start_command.
start_command(st) ==
    [ResetAgents(st) EXCEPT
         !.ctx.dialog_started = FALSE,
         !.ctx.company_info_collected = FALSE,
         !.ctx.calculation_params_collected = FALSE,
         !.ctx.no_filters = FALSE,
         !.ctx.waiting_company_confirmation = FALSE,
         !.ctx.waiting_params_confirmation = FALSE,
         !.epoch = @ + 1,
         !.company_answer = "",
         !.last = LastCall("start", "", "", None)]

\* reset_command.
reset_command(st) ==
    [ResetAgents(st) EXCEPT
         !.ctx.dialog_started = FALSE,
         !.ctx.company_info_collected = FALSE,
         !.ctx.calculation_params_collected = FALSE,
         !.ctx.no_filters = FALSE,
         !.epoch = @ + 1,
         !.company_answer = "",
         !.last = LastCall("reset", "", "", None)]

\* Lines 688-691 and 444-447: the no-filters mode.
ActivateNoFilters(st) ==
    [st EXCEPT !.ctx.no_filters = TRUE,
               !.ctx.company_info_collected = TRUE,
               !.ctx.company_info = CompanyInfo(st.epoch, "empty"),
               !.ctx.okved_codes = << >>]

\* no_filters_command.
no_filters_command(st) ==
    [ActivateNoFilters(st) EXCEPT !.last = LastCall("no_filters", "", "", None)]

\* Lowered texts that contain one of the keywords of
\* check_about_bot_question, of check_no_filters_request, of the confirm
\* keywords and of the reject keywords of check_confirmation ("neverno"
\* contains "verno" and "nepravilno" contains "pravilno").
AboutBotTexts == {"chto ty umeesh?"}
NoFiltersTexts == {"bez filtrov"}
ConfirmTexts == {"da", "neverno", "nepravilno"}
RejectTexts == {"net", "neverno", "nepravilno", "ne znayu"}

check_about_bot_question(message) == lower(message) \in AboutBotTexts

check_no_filters_request(message) == lower(message) \in NoFiltersTexts

\* check_confirmation: True, False or None; the confirm keywords are tried
\* first.
check_confirmation(message) ==
    IF lower(strip(message)) \in ConfirmTexts THEN Some(TRUE)
    ELSE IF lower(strip(message)) \in RejectTexts THEN Some(FALSE)
    ELSE None

\* The keyword arguments handle_message calls the pipeline with.
BotKeywords == {"db_name", "filters", "avg_amount_mmb", "avg_amount_other",
                "k", "own_share", "product_type"}

\* Lines 705-749: the answer to the company summary.
CompanyConfirmation(st, text) ==
    LET confirmation == check_confirmation(text)
    IN  IF confirmation = Some(TRUE)
        THEN [st EXCEPT !.ctx.company_info_collected = TRUE,
                        !.ctx.waiting_company_confirmation = FALSE,
                        !.company_answer = text]
        ELSE IF confirmation = Some(FALSE)
        THEN [st EXCEPT !.ctx.waiting_company_confirmation = FALSE,
                        !.ctx.company_info = CompanyInfo(st.epoch, "empty"),
                        !.ctx.okved_codes = << >>,
                        !.ctx.dialog_started = FALSE,
                        !.company_history = 0]
        ELSE st

\* Lines 752-835: stage 1.  ch.complete is the agent's verdict and ch.okved
\* the codes found for the industry.
CompanyStage(st, ch) ==
    LET s1 == IF ~st.ctx.dialog_started
              THEN [st EXCEPT !.ctx.dialog_started = TRUE,
                              !.company_history = 1]
              ELSE [st EXCEPT !.company_history = @ + 1]
    IN  IF ~ch.complete THEN s1
        ELSE [s1 EXCEPT
                  !.ctx.company_info = CompanyInfo(st.epoch, "found"),
                  !.ctx.dialog_started = FALSE,
                  !.ctx.okved_codes =
                      IF st.ctx.no_filters THEN << >> ELSE ch.okved,
                  !.ctx.waiting_company_confirmation = TRUE]

\* Lines 838-950: the answer to the parameter summary.  ch.built says
\* whether the filters were built without an exception; the call of the
\* pipeline is then bound, and its exception is caught at line 919.
ParamsConfirmation(st, text, ch) ==
    LET confirmation == check_confirmation(text)
        invoked == st.ctx.no_filters \/ ch.built
        call == [company_info |-> st.ctx.company_info,
                 calculation_params |-> st.ctx.calculation_params,
                 no_filters |-> st.ctx.no_filters,
                 raises |-> BindKeywords(BotKeywords, PipelineParameters,
                                         PipelineRequired)]
    IN  IF confirmation = Some(TRUE)
        THEN [st EXCEPT !.ctx.calculation_params_collected = TRUE,
                        !.ctx.waiting_params_confirmation = FALSE,
                        !.last.calculated =
                            IF invoked THEN Some(call) ELSE None]
        ELSE IF confirmation = Some(FALSE)
        THEN [st EXCEPT !.ctx.waiting_params_confirmation = FALSE,
                        !.ctx.calculation_params = CalcParams(st.epoch, FALSE),
                        !.ctx.calc_dialog_started = FALSE,
                        !.params_history = 0]
        ELSE st

\* Lines 953-984: stage 2.
ParamsStage(st, ch) ==
    LET s1 == IF ~st.ctx.calc_dialog_started
              THEN [st EXCEPT !.ctx.calc_dialog_started = TRUE,
                              !.params_history = 1]
              ELSE [st EXCEPT !.params_history = @ + 1]
    IN  IF ~ch.complete THEN s1
        ELSE [s1 EXCEPT
                  !.ctx.calculation_params = CalcParams(st.epoch, TRUE),
                  !.ctx.calc_dialog_started = FALSE,
                  !.ctx.waiting_params_confirmation = TRUE]

\* handle_message on a text, with the choices ch of the agents.
handle_message(st, text, ch) ==
    LET At(stage) == [st EXCEPT !.last =
                                    LastCall("message", text, stage, None)]
    IN  IF check_about_bot_question(text) THEN At("help")
        ELSE IF check_no_filters_request(text)
                    /\ ~st.ctx.company_info_collected
        THEN ActivateNoFilters(At("no_filters"))
        ELSE IF st.ctx.waiting_company_confirmation
        THEN CompanyConfirmation(At("company_confirmation"), text)
        ELSE IF ~st.ctx.company_info_collected
        THEN CompanyStage(At("company"), ch)
        ELSE IF st.ctx.waiting_params_confirmation
        THEN ParamsConfirmation(At("params_confirmation"), text, ch)
        ELSE IF ~st.ctx.calculation_params_collected
        THEN ParamsStage(At("params"), ch)
        ELSE At("")

\* The texts of the user and the choices of the agents.
BotTexts == {"da", "net", "neverno", "IT, 50 chelovek", "bez filtrov",
             "chto ty umeesh?"}

AgentChoices ==
    [complete : BOOLEAN, okved : {<< >>, <<"62.1">>}, built : BOOLEAN]

BotRest == <<engineVars, invocations, chatVars, presented, sending>>

StartCommand ==
    /\ user_data.epoch < MaxEpochs
    /\ user_data' = start_command(user_data)
    /\ UNCHANGED BotRest

ResetCommand ==
    /\ user_data.epoch < MaxEpochs
    /\ user_data' = reset_command(user_data)
    /\ UNCHANGED BotRest

NoFiltersCommand ==
    /\ user_data' = no_filters_command(user_data)
    /\ UNCHANGED BotRest

HandleMessage ==
    /\ \E text \in BotTexts, ch \in AgentChoices :
           /\ user_data' = handle_message(user_data, text, ch)
           /\ user_data'.company_history <= MaxTurns
           /\ user_data'.params_history <= MaxTurns
    /\ UNCHANGED BotRest

\* The dialog after /start, without /reset.
NextDialog == StartCommand \/ NoFiltersCommand \/ HandleMessage

\* The dialog with every command.
NextBot == StartCommand \/ ResetCommand \/ NoFiltersCommand \/ HandleMessage

\* The bot after the /start of a new user.
InitBot ==
    /\ EngineIdle(FilterMinCfg, FilterCostCfg, MmbDefaults)
    /\ invocations = << >>
    /\ ChatIdle
    /\ presented = << >>
    /\ sending = << >>
    /\ user_data = start_command(FreshBot)

SpecDialog == InitBot /\ [][NextDialog]_vars

SpecBot == InitBot /\ [][NextBot]_vars

\* C25: /reset leaves the dialog state /start would leave, with no company
\* or parameter confirmation pending, and a calculation runs only with
\* company info and parameters collected since the last /start or /reset.
C25_ResetIsLikeStart ==
    /\ user_data.last.handler = "reset" =>
           /\ ~user_data.ctx.waiting_company_confirmation
           /\ ~user_data.ctx.waiting_params_confirmation
    /\ user_data.last.calculated # None =>
           /\ user_data.last.calculated[1].company_info.epoch
                  = user_data.epoch
           /\ user_data.last.calculated[1].calculation_params.epoch
                  = user_data.epoch

\* The texts by which a user confirms a summary.
UserConfirms == {"da"}

\* C26: from /start on, handle_message invokes the calculation only in a
\* step where the user confirms a complete parameter set, and it reaches
\* the collection or the confirmation of the parameters only after the
\* user has confirmed the company info or the no-filters mode is active.
C26_CalculationAfterBothConfirmations ==
    /\ user_data.last.calculated # None =>
           /\ user_data.last.stage = "params_confirmation"
           /\ user_data.last.text \in UserConfirms
           /\ user_data.last.calculated[1].calculation_params.complete
    /\ user_data.last.stage \in {"params", "params_confirmation"} =>
           \/ user_data.ctx.no_filters
           \/ user_data.company_answer \in UserConfirms

\* The order of the dialog by the bot's own reading of the answers: the
\* calculation is invoked only from the parameter confirmation with a
\* complete parameter set, and the parameter stages are reached only with
\* the company info marked collected.
DialogOrder ==
    /\ user_data.last.calculated # None =>
           /\ user_data.last.stage = "params_confirmation"
           /\ check_confirmation(user_data.last.text) = Some(TRUE)
           /\ user_data.last.calculated[1].calculation_params.complete
    /\ user_data.last.stage \in {"params", "params_confirmation"} =>
           /\ user_data.ctx.company_info_collected
           /\ user_data.ctx.no_filters \/ user_data.company_answer # ""

====
